---- MODULE Spec2Model ----
(***************************************************************************)
(* Model of the galangal orchestration core: the stage resolver            *)
(* (get_next_stage), the rollback controller (handle_rollback), the run    *)
(* loop (_run_workflow_legacy) and the process supervisor                  *)
(* (SubprocessRunner.run).                                                 *)
(***************************************************************************)
EXTENDS Integers, Sequences, FiniteSets, TLC

VARIABLES
    state,          \* the WorkflowState record owned by the run loop
    saved,          \* the record last written by save_state
    cfg_skip,       \* config.stages.skip, upper-cased
    artifacts,      \* names of the artifacts that exist for the task
    glob_skip,      \* stages for which ValidationRunner.should_skip_stage is true
    r_current,      \* resolver call: the argument `current`
    r_result,       \* resolver call: the value returned ("unset" before the call)
    rollback_md,    \* the entries of ROLLBACK.md (<<>>: the file does not exist)
    resolved_md,    \* the archived blocks of ROLLBACK_RESOLVED.md
    now,            \* wall clock, in units of half the rollback window
    rb_call,        \* the handle_rollback call just made: target and return value
    pc,             \* where the run loop stands
    result,         \* the StageResult of the stage execution being handled
    pause_requested, \* the module-level pause flag set by the SIGINT handler
    fail_run,       \* history: validation failures in a row since the last
                    \* stage change or user choice
    child,          \* the child process of SubprocessRunner.run and its pipe
    runner,         \* the locals of SubprocessRunner.run and its position
    ex,             \* one execute_stage call: its collaborators' answers, the
                    \* StageResult and the collaborator calls it made
    tui,            \* the TUI run loop: the main thread, the worker threads
                    \* and the flags of the WorkflowTUIApp they share
    prompt,         \* one prompt_async call: its two waiters and its result;
                    \* with the hub's ActionHandler, the prompts of one task
    logs,           \* the per-attempt log files of the task
    be              \* one backend call: its inputs and what it returned;
                    \* for the hub, the HubClient and its tasks

vars == <<state, saved, cfg_skip, artifacts, glob_skip, r_current, r_result,
          rollback_md, resolved_md, now, rb_call,
          pc, result, pause_requested, fail_run, child, runner, ex,
          tui, prompt, logs, be>>

resolverVars == <<r_current, r_result>>
envVars == <<cfg_skip, artifacts, glob_skip>>
logVars == <<rollback_md, resolved_md>>
loopVars == <<pc, result, pause_requested, fail_run>>
runVars == <<child, runner>>
sideVars == <<tui, prompt, logs, be>>

----------------------------------------------------------------------------
(* Stage model *)

None == "None"

\* an absent value and a present one, for int | None fields
Nothing == <<>>
Some(x) == <<x>>

\* no child process was started
NoChild ==
    [status |-> "none", pending |-> {}, sent |-> <<>>, ignores_term |-> FALSE,
     code |-> Nothing, written |-> 0, pipe |-> <<>>]

\* no RunResult was returned
NoRunResult ==
    [outcome |-> "NONE", exit_code |-> Nothing, output |-> <<>>,
     timeout_seconds |-> Nothing]

\* SubprocessRunner.run was not called
NoRun ==
    [pc |-> "idle", retcode |-> Nothing, returncode |-> Nothing,
     output_lines |-> <<>>, forwarded |-> <<>>, had_output |-> FALSE,
     elapsed |-> 0,
     last_idle_callback |-> 0, read_error |-> FALSE, result |-> NoRunResult]

\* result when no stage result is being handled
NoResult ==
    [type |-> "NONE", success |-> FALSE, message |-> None, rollback_to |-> None,
     is_fast_track |-> FALSE]

\* execute_stage was not called
NoExec ==
    [done |-> FALSE, read_only_output |-> FALSE, inv |-> NoResult,
     val |-> [success |-> FALSE, message |-> None, rollback_to |-> None,
              needs_user_decision |-> FALSE, is_fast_track |-> FALSE],
     result |-> NoResult, calls |-> <<>>]

\* rb_call when handle_rollback was not just called
NoCall == [called |-> FALSE, target |-> None, ret |-> FALSE]

\* the flags of a WorkflowTUIApp after __init__; `prompt` is _prompt_type,
\* `exit_timer` the pending set_timer(0.5, app.exit), `exited` app.exit() called
NewApp ==
    [paused |-> FALSE, interrupt |-> FALSE, skip |-> FALSE, back |-> FALSE,
     manual_edit |-> FALSE, prompt |-> "NONE", result |-> None,
     exit_timer |-> FALSE, exited |-> FALSE]

\* no TUI was started
NoTui ==
    [main |-> "none", workers |-> <<>>, app |-> NewApp, answer |-> None,
     success |-> FALSE]

\* prompt_async was not called
NoPrompt == [pc |-> "idle"]

\* no log file was written
NoLogs == <<>>

\* no backend call was made
NoBackendCall == [pc |-> "idle"]

\* the variables of the TUI, the prompt race, the logs and the backend call
\* when none of them is in use
InitSide ==
    /\ tui = NoTui
    /\ prompt = NoPrompt
    /\ logs = NoLogs
    /\ be = NoBackendCall

STAGE_ORDER ==
    <<"PM", "DESIGN", "PREFLIGHT", "DEV", "MIGRATION", "TEST", "CONTRACT",
      "QA", "BENCHMARK", "SECURITY", "REVIEW", "DOCS", "COMPLETE">>

Stage == {STAGE_ORDER[i] : i \in 1..Len(STAGE_ORDER)}

\* STAGE_ORDER.index(s), 1-based
StageIndex(s) == CHOOSE i \in 1..Len(STAGE_ORDER) : STAGE_ORDER[i] = s

LastStage == STAGE_ORDER[Len(STAGE_ORDER)]

\* artifact names: NAME.md, and the skip marker STAGE_SKIP.md of a stage
Artifact(name) == <<name, ".md">>
SkipArtifact(stage) == <<stage, "_SKIP.md">>

\* conditional stage -> name of its manual skip marker
CONDITIONAL_STAGES ==
    [s \in {"MIGRATION", "CONTRACT", "BENCHMARK"} |-> SkipArtifact(s)]

----------------------------------------------------------------------------
(* WorkflowState helpers used by the resolver *)

\* the task-type profile is represented by the set of stages it excludes
should_skip_for_task_type(stage, task_type) == stage \in task_type

should_fast_track_skip(st, stage) == st.fast_track /\ stage \in st.passed_stages

\* state.stage_plan[stage]["action"], or None when the plan has no entry
PlanAction(st, stage) ==
    IF stage \in DOMAIN st.stage_plan THEN st.stage_plan[stage] ELSE None

----------------------------------------------------------------------------
(* Stage resolver *)

\* get_next_stage with the index wrapping around at the end of STAGE_ORDER
RECURSIVE get_next_stage_wrap(_, _, _, _, _)
get_next_stage_wrap(current, st, skip, arts, glob) ==
    LET idx == StageIndex(current) IN
    IF idx >= Len(STAGE_ORDER) THEN STAGE_ORDER[1]
    ELSE
        LET next_stage == STAGE_ORDER[idx + 1] IN
        IF next_stage \in skip
            THEN get_next_stage_wrap(next_stage, st, skip, arts, glob)
        ELSE IF should_skip_for_task_type(next_stage, st.task_type)
            THEN get_next_stage_wrap(next_stage, st, skip, arts, glob)
        ELSE IF should_fast_track_skip(st, next_stage)
            THEN get_next_stage_wrap(next_stage, st, skip, arts, glob)
        ELSE IF PlanAction(st, next_stage) = "skip"
            THEN get_next_stage_wrap(next_stage, st, skip, arts, glob)
        ELSE IF next_stage \in DOMAIN CONDITIONAL_STAGES
            THEN IF CONDITIONAL_STAGES[next_stage] \in arts
                    THEN get_next_stage_wrap(next_stage, st, skip, arts, glob)
                 ELSE IF PlanAction(st, next_stage) = "run"
                    THEN next_stage
                 ELSE IF next_stage \in glob
                    THEN get_next_stage_wrap(next_stage, st, skip, arts, glob)
                 ELSE next_stage
        ELSE next_stage

\* get_next_stage whose config-skip branch returns the following stage
\* without resolving it
RECURSIVE get_next_stage_cfg_once(_, _, _, _, _)
get_next_stage_cfg_once(current, st, skip, arts, glob) ==
    LET idx == StageIndex(current) IN
    IF idx >= Len(STAGE_ORDER) THEN None
    ELSE
        LET next_stage == STAGE_ORDER[idx + 1] IN
        IF next_stage \in skip
            THEN IF idx + 2 > Len(STAGE_ORDER) THEN None ELSE STAGE_ORDER[idx + 2]
        ELSE IF should_skip_for_task_type(next_stage, st.task_type)
            THEN get_next_stage_cfg_once(next_stage, st, skip, arts, glob)
        ELSE IF should_fast_track_skip(st, next_stage)
            THEN get_next_stage_cfg_once(next_stage, st, skip, arts, glob)
        ELSE IF PlanAction(st, next_stage) = "skip"
            THEN get_next_stage_cfg_once(next_stage, st, skip, arts, glob)
        ELSE IF next_stage \in DOMAIN CONDITIONAL_STAGES
            THEN IF CONDITIONAL_STAGES[next_stage] \in arts
                    THEN get_next_stage_cfg_once(next_stage, st, skip, arts, glob)
                 ELSE IF PlanAction(st, next_stage) = "run"
                    THEN next_stage
                 ELSE IF next_stage \in glob
                    THEN get_next_stage_cfg_once(next_stage, st, skip, arts, glob)
                 ELSE next_stage
        ELSE next_stage

\* get_next_stage applying the glob condition even when the stage plan
\* says "run"
RECURSIVE get_next_stage_glob_over_run(_, _, _, _, _)
get_next_stage_glob_over_run(current, st, skip, arts, glob) ==
    LET idx == StageIndex(current) IN
    IF idx >= Len(STAGE_ORDER) THEN None
    ELSE
        LET next_stage == STAGE_ORDER[idx + 1] IN
        IF next_stage \in skip
            THEN get_next_stage_glob_over_run(next_stage, st, skip, arts, glob)
        ELSE IF should_skip_for_task_type(next_stage, st.task_type)
            THEN get_next_stage_glob_over_run(next_stage, st, skip, arts, glob)
        ELSE IF should_fast_track_skip(st, next_stage)
            THEN get_next_stage_glob_over_run(next_stage, st, skip, arts, glob)
        ELSE IF PlanAction(st, next_stage) = "skip"
            THEN get_next_stage_glob_over_run(next_stage, st, skip, arts, glob)
        ELSE IF next_stage \in DOMAIN CONDITIONAL_STAGES
            THEN IF CONDITIONAL_STAGES[next_stage] \in arts
                    THEN get_next_stage_glob_over_run(next_stage, st, skip, arts, glob)
                 ELSE IF next_stage \in glob
                    THEN get_next_stage_glob_over_run(next_stage, st, skip, arts, glob)
                 ELSE next_stage
        ELSE next_stage

\* get_next_stage letting a stage-plan "run" win over the skip marker
RECURSIVE get_next_stage_run_over_marker(_, _, _, _, _)
get_next_stage_run_over_marker(current, st, skip, arts, glob) ==
    LET idx == StageIndex(current) IN
    IF idx >= Len(STAGE_ORDER) THEN None
    ELSE
        LET next_stage == STAGE_ORDER[idx + 1] IN
        IF next_stage \in skip
            THEN get_next_stage_run_over_marker(next_stage, st, skip, arts, glob)
        ELSE IF should_skip_for_task_type(next_stage, st.task_type)
            THEN get_next_stage_run_over_marker(next_stage, st, skip, arts, glob)
        ELSE IF should_fast_track_skip(st, next_stage)
            THEN get_next_stage_run_over_marker(next_stage, st, skip, arts, glob)
        ELSE IF PlanAction(st, next_stage) = "skip"
            THEN get_next_stage_run_over_marker(next_stage, st, skip, arts, glob)
        ELSE IF next_stage \in DOMAIN CONDITIONAL_STAGES
            THEN IF PlanAction(st, next_stage) = "run"
                    THEN next_stage
                 ELSE IF CONDITIONAL_STAGES[next_stage] \in arts
                    THEN get_next_stage_run_over_marker(next_stage, st, skip, arts, glob)
                 ELSE IF next_stage \in glob
                    THEN get_next_stage_run_over_marker(next_stage, st, skip, arts, glob)
                 ELSE next_stage
        ELSE next_stage

RECURSIVE get_next_stage(_, _, _, _, _)
get_next_stage(current, st, skip, arts, glob) ==
    LET idx == StageIndex(current) IN
    IF idx >= Len(STAGE_ORDER) THEN None
    ELSE
        LET next_stage == STAGE_ORDER[idx + 1] IN
        IF next_stage \in skip
            THEN get_next_stage(next_stage, st, skip, arts, glob)
        ELSE IF should_skip_for_task_type(next_stage, st.task_type)
            THEN get_next_stage(next_stage, st, skip, arts, glob)
        ELSE IF should_fast_track_skip(st, next_stage)
            THEN get_next_stage(next_stage, st, skip, arts, glob)
        ELSE IF PlanAction(st, next_stage) = "skip"
            THEN get_next_stage(next_stage, st, skip, arts, glob)
        ELSE IF next_stage \in DOMAIN CONDITIONAL_STAGES
            THEN IF CONDITIONAL_STAGES[next_stage] \in arts
                    THEN get_next_stage(next_stage, st, skip, arts, glob)
                 ELSE IF PlanAction(st, next_stage) = "run"
                    THEN next_stage
                 ELSE IF next_stage \in glob
                    THEN get_next_stage(next_stage, st, skip, arts, glob)
                 ELSE next_stage
        ELSE next_stage

----------------------------------------------------------------------------
(* WorkflowState *)

NoPlan == [s \in Stage |-> None]

\* a newly created WorkflowState at stage s for a task of profile tt
NewState(s, tt) ==
    [stage |-> s, attempt |-> 1, last_failure |-> None,
     rollback_history |-> <<>>, fast_track |-> FALSE, passed_stages |-> {},
     stage_plan |-> NoPlan, awaiting_approval |-> FALSE,
     clarification_required |-> FALSE, task_type |-> tt]

\* task-type profiles: the stages each excludes
TaskProfiles == {{}, {"TEST", "BENCHMARK"}, {"DESIGN", "PREFLIGHT"}}

----------------------------------------------------------------------------
(* Resolver inputs: a bounded number of skip marks on the stages after     *)
(* `current`, one mark being one rule applying to one stage.               *)

MaxMarks == 2

StageRules == {"cfg", "passed", "plan_skip"}
CondRules == {"plan_run", "artifact", "glob"}

MarksAfter(cur) ==
    {m \in (StageRules \X Stage) \cup (CondRules \X DOMAIN CONDITIONAL_STAGES) :
        StageIndex(m[2]) > StageIndex(cur)}

RECURSIVE SubsetsUpTo(_, _)
SubsetsUpTo(S, k) ==
    IF k = 0 THEN {{}}
    ELSE LET prev == SubsetsUpTo(S, k - 1) IN
         prev \cup {p \cup {x} : p \in prev, x \in S}

MarkedStages(M, rule) == {m[2] : m \in {x \in M : x[1] = rule}}

PlanOf(M) ==
    [s \in Stage |->
        IF s \in MarkedStages(M, "plan_skip") THEN "skip"
        ELSE IF s \in MarkedStages(M, "plan_run") THEN "run"
        ELSE None]

InitResolver ==
    \E cur \in Stage, tt \in TaskProfiles, ft \in BOOLEAN :
      \E M \in SubsetsUpTo(MarksAfter(cur), MaxMarks) :
        /\ r_current = cur
        /\ r_result = "unset"
        /\ cfg_skip = MarkedStages(M, "cfg")
        /\ artifacts = {CONDITIONAL_STAGES[s] : s \in MarkedStages(M, "artifact")}
        /\ glob_skip = MarkedStages(M, "glob")
        /\ state = [NewState(cur, tt) EXCEPT
                        !.fast_track = ft,
                        !.passed_stages = MarkedStages(M, "passed"),
                        !.stage_plan = PlanOf(M)]
        /\ saved = state
        /\ rollback_md = <<>>
        /\ resolved_md = <<>>
        /\ now = 0
        /\ rb_call = NoCall
        /\ pc = "idle"
        /\ result = NoResult
        /\ pause_requested = FALSE
        /\ fail_run = 0
        /\ child = NoChild
        /\ runner = NoRun
        /\ ex = NoExec
        /\ InitSide

\* one call get_next_stage(current, state)
Resolve ==
    /\ r_result = "unset"
    /\ r_result' = get_next_stage(r_current, state, cfg_skip, artifacts, glob_skip)
    /\ UNCHANGED <<state, saved, envVars, r_current, runVars, sideVars, ex, logVars, now, rb_call, loopVars>>

NextResolver == Resolve

SpecResolver == InitResolver /\ [][NextResolver]_vars

----------------------------------------------------------------------------
(* Properties of the resolver, checked under SpecResolver *)

Resolved == r_result # "unset"

\* C1: a non-None result of get_next_stage(current, state) has a strictly
\* greater index in STAGE_ORDER than current; it is never current itself
\* nor an earlier stage.
C1_StrictlyLater ==
    (Resolved /\ r_result # None) =>
        StageIndex(r_result) > StageIndex(r_current)

\* a call that skipped at least one stage and returned a later one
C1_Witness ==
    /\ Resolved /\ r_result # None
    /\ StageIndex(r_result) > StageIndex(r_current) + 1

\* C2: get_next_stage(current, state) returns None if and only if current
\* is the last stage of STAGE_ORDER, whatever the skip rules are.
C2_NoneIffLast ==
    Resolved => ((r_result = None) <=> (r_current = LastStage))

\* the candidate stage of the call: the one right after current
Candidate == STAGE_ORDER[StageIndex(r_current) + 1]

\* the rules among config skip list, task-type exclusion and fast-track
\* that apply to stage c
AppliedRules(c) ==
    {rule \in {"cfg", "task", "ft"} :
        \/ rule = "cfg" /\ c \in cfg_skip
        \/ rule = "task" /\ should_skip_for_task_type(c, state.task_type)
        \/ rule = "ft" /\ should_fast_track_skip(state, c)}

\* the result of the call when, of the three rules, only `rule` applies to c
ResultWithOnly(rule, c) ==
    get_next_stage(
        r_current,
        [state EXCEPT
            !.task_type = IF rule = "task" THEN @ ELSE @ \ {c},
            !.passed_stages = IF rule = "ft" THEN @ ELSE @ \ {c}],
        IF rule = "cfg" THEN cfg_skip ELSE cfg_skip \ {c},
        artifacts, glob_skip)

\* C3: when several of the rules config skip list, task-type exclusion and
\* fast-track apply to the candidate stage at once, get_next_stage returns
\* the same stage as when any single one of them applies alone.
C3_SkipPrecedence ==
    (Resolved /\ r_current # LastStage /\ Cardinality(AppliedRules(Candidate)) >= 2) =>
        \A rule \in AppliedRules(Candidate) :
            r_result = ResultWithOnly(rule, Candidate)

\* a call whose candidate is skipped by all three rules at once
C3_Witness ==
    /\ Resolved /\ r_current # LastStage
    /\ AppliedRules(Candidate) = {"cfg", "task", "ft"}

----------------------------------------------------------------------------
(* StageResult *)

StageResultType ==
    {"SUCCESS", "VALIDATION_FAILED", "ROLLBACK_REQUIRED", "CLARIFICATION_NEEDED",
     "PREFLIGHT_FAILED", "USER_DECISION_NEEDED", "SKIPPED", "PAUSED", "TIMEOUT",
     "MAX_TURNS", "ERROR"}

MkResult(type, message, rollback_to, is_fast_track) ==
    [type |-> type, success |-> type \in {"SUCCESS", "SKIPPED"},
     message |-> message, rollback_to |-> rollback_to,
     is_fast_track |-> is_fast_track]

----------------------------------------------------------------------------
(* Rollback controller *)

\* loop prevention: at most MAX_ROLLBACKS rollbacks to one stage within
\* ROLLBACK_WINDOW clock units (one hour)
MAX_ROLLBACKS == 3
ROLLBACK_WINDOW == 2

\* WorkflowState.get_rollback_count at time t
get_rollback_count(st, target, t) ==
    Cardinality({i \in 1..Len(st.rollback_history) :
        /\ st.rollback_history[i].to_stage = target
        /\ st.rollback_history[i].timestamp > t - ROLLBACK_WINDOW})

should_allow_rollback(st, target, t) ==
    get_rollback_count(st, target, t) < MAX_ROLLBACKS

record_rollback(st, from_stage, target_stage, reason, t) ==
    [st EXCEPT !.rollback_history =
        Append(@, [timestamp |-> t, from_stage |-> from_stage,
                   to_stage |-> target_stage, reason |-> reason])]

setup_fast_track(st) == [st EXCEPT !.fast_track = TRUE]
clear_fast_track(st) == [st EXCEPT !.fast_track = FALSE]
clear_passed_stages(st) == [st EXCEPT !.passed_stages = {}]

reset_attempts(st, clear_failure) ==
    [st EXCEPT !.attempt = 1,
               !.last_failure = IF clear_failure THEN None ELSE @]

\* ROLLBACK.md after append_rollback_entry
append_rollback_entry(md, source, from_stage, target_stage, reason, t) ==
    Append(md, [source |-> source, date |-> t, from_stage |-> from_stage,
                target_stage |-> target_stage, reason |-> reason])

\* what handle_rollback leaves when it returns False
RollbackRefused(st, sv, md) ==
    [ret |-> FALSE, state |-> st, saved |-> sv, rollback_md |-> md]

\* an accepted rollback that leaves the attempt counter alone
RollbackAccepted_keep_attempt(st, md, res, t) ==
    LET from_stage == st.stage
        target_stage == res.rollback_to
        reason == res.message
        st1 == record_rollback(st, from_stage, target_stage, reason, t)
        md1 == append_rollback_entry(md, <<"Validation failure in", from_stage>>,
                                     from_stage, target_stage, reason, t)
        st2 == IF res.is_fast_track
                 THEN setup_fast_track(st1)
                 ELSE clear_passed_stages(clear_fast_track(st1))
        st3 == [st2 EXCEPT !.stage = target_stage,
                           !.last_failure = <<"Rollback from", from_stage, reason>>]
    IN [ret |-> TRUE, state |-> st3, saved |-> st3, rollback_md |-> md1]

\* an accepted rollback that never clears the fast-track window
RollbackAccepted_keep_passed(st, md, res, t) ==
    LET from_stage == st.stage
        target_stage == res.rollback_to
        reason == res.message
        st1 == record_rollback(st, from_stage, target_stage, reason, t)
        md1 == append_rollback_entry(md, <<"Validation failure in", from_stage>>,
                                     from_stage, target_stage, reason, t)
        st2 == IF res.is_fast_track THEN setup_fast_track(st1) ELSE st1
        st3 == [st2 EXCEPT !.stage = target_stage,
                           !.last_failure = <<"Rollback from", from_stage, reason>>]
        st4 == reset_attempts(st3, FALSE)
    IN [ret |-> TRUE, state |-> st4, saved |-> st4, rollback_md |-> md1]

\* what handle_rollback leaves when it accepts the rollback
RollbackAccepted(st, md, res, t) ==
    LET from_stage == st.stage
        target_stage == res.rollback_to
        reason == res.message
        st1 == record_rollback(st, from_stage, target_stage, reason, t)
        md1 == append_rollback_entry(md, <<"Validation failure in", from_stage>>,
                                     from_stage, target_stage, reason, t)
        st2 == IF res.is_fast_track
                 THEN setup_fast_track(st1)
                 ELSE clear_passed_stages(clear_fast_track(st1))
        st3 == [st2 EXCEPT !.stage = target_stage,
                           !.last_failure = <<"Rollback from", from_stage, reason>>]
        st4 == reset_attempts(st3, FALSE)
    IN [ret |-> TRUE, state |-> st4, saved |-> st4, rollback_md |-> md1]

\* handle_rollback without the loop check
handle_rollback_no_loop_check(st, sv, md, res, t) ==
    IF res.type # "ROLLBACK_REQUIRED" \/ res.rollback_to = None
        THEN RollbackRefused(st, sv, md)
    ELSE RollbackAccepted(st, md, res, t)

\* handle_rollback recording the rollback before the loop check
handle_rollback_record_first(st, sv, md, res, t) ==
    IF res.type # "ROLLBACK_REQUIRED" \/ res.rollback_to = None
        THEN RollbackRefused(st, sv, md)
    ELSE IF ~should_allow_rollback(st, res.rollback_to, t)
        THEN RollbackRefused(
                record_rollback(st, st.stage, res.rollback_to, res.message, t),
                sv, md)
    ELSE RollbackAccepted(st, md, res, t)

\* handle_rollback(state, result) at time t: the return value and what it
\* leaves in the state, the persisted state and ROLLBACK.md
handle_rollback(st, sv, md, res, t) ==
    IF res.type # "ROLLBACK_REQUIRED" \/ res.rollback_to = None
        THEN RollbackRefused(st, sv, md)
    ELSE IF ~should_allow_rollback(st, res.rollback_to, t)
        THEN RollbackRefused(st, sv, md)
    ELSE RollbackAccepted(st, md, res, t)

\* ROLLBACK_RESOLVED.md after archive_rollback_if_exists (the date of the
\* resolution note is left out)
archive_rollback_if_exists(md, resolved, t) ==
    IF md = <<>> THEN resolved
    ELSE Append(resolved, [content |-> md, note |-> "Issues fixed by DEV stage."])

\* advance that keeps the attempt counter
advance_keep_attempt(st, skip, arts, glob) ==
    LET next_stage == get_next_stage(st.stage, st, skip, arts, glob) IN
    IF next_stage # None
        THEN [st EXCEPT !.stage = next_stage,
                        !.last_failure = None, !.awaiting_approval = FALSE,
                        !.clarification_required = FALSE]
    ELSE [st EXCEPT !.stage = "COMPLETE"]

\* the state after a successful stage: legacy_runner's advance
advance(st, skip, arts, glob) ==
    LET next_stage == get_next_stage(st.stage, st, skip, arts, glob) IN
    IF next_stage # None
        THEN [st EXCEPT !.stage = next_stage, !.attempt = 1,
                        !.last_failure = None, !.awaiting_approval = FALSE,
                        !.clarification_required = FALSE]
    ELSE [st EXCEPT !.stage = "COMPLETE"]

----------------------------------------------------------------------------
(* The rollback controller driven by validation results: stages succeed    *)
(* and advance, the validator asks for rollbacks, the clock advances.      *)

MaxHistory == 4
MaxTime == 2

Messages == {"m1"}
\* the stages whose validation asks for a rollback, and the targets it names
RollbackSources == {"TEST", "QA"}
RollbackTargets == {"DESIGN", "DEV"}

RollbackResults ==
    {MkResult("ROLLBACK_REQUIRED", m, tgt, ft) :
        m \in Messages, tgt \in RollbackTargets \cup {None}, ft \in BOOLEAN}
    \cup {MkResult("VALIDATION_FAILED", m, None, FALSE) : m \in Messages}

InitRollback ==
    /\ state = [NewState("PM", {}) EXCEPT !.passed_stages = {"TEST"}]
    /\ saved = state
    /\ cfg_skip = {"PREFLIGHT", "BENCHMARK", "SECURITY", "REVIEW", "DOCS"}
    /\ artifacts = {}
    /\ glob_skip = {"MIGRATION", "CONTRACT"}
    /\ rollback_md = <<>>
    /\ resolved_md = <<>>
    /\ now = 0
    /\ rb_call = NoCall
    /\ pc = "idle"
    /\ result = NoResult
    /\ pause_requested = FALSE
    /\ fail_run = 0
    /\ child = NoChild
    /\ runner = NoRun
    /\ ex = NoExec
    /\ InitSide
    /\ r_current = "PM"
    /\ r_result = "unset"

\* one call handle_rollback(state, res) after a failed stage
RollbackCall(res) ==
    /\ state.stage \in RollbackSources
    /\ LET out == handle_rollback(state, saved, rollback_md, res, now) IN
        /\ Len(out.state.rollback_history) <= MaxHistory
        /\ state' = out.state
        /\ saved' = out.saved
        /\ rollback_md' = out.rollback_md
        /\ rb_call' = [called |-> TRUE, target |-> res.rollback_to, ret |-> out.ret]
    /\ UNCHANGED <<envVars, resolverVars, runVars, sideVars, ex, resolved_md, now, loopVars>>

\* the current stage succeeds and the loop moves to the next stage
StageSucceeds ==
    /\ state.stage # "COMPLETE"
    /\ resolved_md' = IF state.stage = "DEV"
                        THEN archive_rollback_if_exists(rollback_md, resolved_md, now)
                        ELSE resolved_md
    /\ rollback_md' = IF state.stage = "DEV" THEN <<>> ELSE rollback_md
    /\ state' = advance(state, cfg_skip, artifacts, glob_skip)
    /\ saved' = state'
    /\ rb_call' = NoCall
    /\ UNCHANGED <<envVars, resolverVars, runVars, sideVars, ex, now, loopVars>>

\* time passes while a stage is executed
Tick ==
    /\ state.stage \in RollbackSources
    /\ now < MaxTime
    /\ now' = now + 1
    /\ rb_call' = NoCall
    /\ UNCHANGED <<state, saved, envVars, resolverVars, runVars, sideVars, ex, logVars, loopVars>>

NextRollback ==
    \/ \E res \in RollbackResults : RollbackCall(res)
    \/ StageSucceeds
    \/ Tick

SpecRollback == InitRollback /\ [][NextRollback]_vars

----------------------------------------------------------------------------
(* Properties of the rollback controller, checked under SpecRollback *)

\* C4: once MAX_ROLLBACKS (3) rollbacks to a stage X are recorded within the
\* trailing window, handle_rollback refuses a further ROLLBACK_REQUIRED
\* targeting X, and it refuses for no other reason: a rollback to a stage Y
\* with fewer recorded rollbacks in the window is accepted.
C4_LoopPrevention ==
    (rb_call.called /\ rb_call.target # None) =>
        LET n == get_rollback_count(state, rb_call.target, now) IN
        /\ rb_call.ret => n <= MAX_ROLLBACKS
        /\ ~rb_call.ret => n >= MAX_ROLLBACKS

\* a rollback to Y was just accepted while another stage X has 3 rollbacks
\* recorded in the window
C4_Witness ==
    /\ rb_call.called /\ rb_call.target # None /\ rb_call.ret
    /\ \E x \in RollbackTargets \ {rb_call.target} :
            get_rollback_count(state, x, now) >= MAX_ROLLBACKS

\* C10: whenever handle_rollback returns False (the result is no rollback,
\* it has no target, or loop prevention refused it), the WorkflowState, the
\* persisted state, ROLLBACK.md and its archive are left unchanged.
C10_RefusedChangesNothing ==
    [][(rb_call'.called /\ ~rb_call'.ret) =>
            /\ state' = state
            /\ saved' = saved
            /\ rollback_md' = rollback_md
            /\ resolved_md' = resolved_md]_vars

\* loop prevention has just refused a rollback
C10_Witness ==
    /\ rb_call.called /\ ~rb_call.ret /\ rb_call.target # None
    /\ get_rollback_count(state, rb_call.target, now) >= MAX_ROLLBACKS

----------------------------------------------------------------------------
(* Stage executor *)

\* the answer of ValidationRunner.validate_stage
ValidationResult(success, message, rollback_to, needs_user_decision, is_fast_track) ==
    [success |-> success, message |-> message, rollback_to |-> rollback_to,
     needs_user_decision |-> needs_user_decision, is_fast_track |-> is_fast_track]

\* execute_stage looking at the rollback target before the user decision
execute_stage_rollback_first(st, sv, arts, glob, inv, val) ==
    LET keep(res) == [result |-> res, state |-> st, saved |-> sv, artifacts |-> arts] IN
    IF st.stage = "COMPLETE"
        THEN keep(MkResult("SUCCESS", "Workflow complete", None, FALSE))
    ELSE IF st.stage \in glob
        THEN [keep(MkResult("SKIPPED", "skipped (condition met)", None, FALSE))
                EXCEPT !.artifacts = arts \cup {SkipArtifact(st.stage)}]
    ELSE IF Artifact("QUESTIONS") \in arts /\ Artifact("ANSWERS") \notin arts
        THEN LET st1 == [st EXCEPT !.clarification_required = TRUE] IN
             [result |-> MkResult("CLARIFICATION_NEEDED", "clarification", None, FALSE),
              state |-> st1, saved |-> st1, artifacts |-> arts]
    ELSE IF st.stage = "PREFLIGHT"
        THEN IF val.success
                THEN keep(MkResult("SUCCESS", val.message, None, FALSE))
                ELSE keep(MkResult("PREFLIGHT_FAILED", val.message, None, FALSE))
    ELSE IF ~inv.success
        THEN keep(inv)
    ELSE IF val.success
        THEN keep(MkResult("SUCCESS", val.message, None, FALSE))
    ELSE IF val.rollback_to # None
        THEN keep(MkResult("ROLLBACK_REQUIRED", val.message, val.rollback_to,
                           val.is_fast_track))
    ELSE IF val.needs_user_decision
        THEN keep(MkResult("USER_DECISION_NEEDED", val.message, None, FALSE))
    ELSE keep(MkResult("VALIDATION_FAILED", val.message, None, FALSE))

\* execute_stage that raises the clarification flag without saving it
execute_stage_unsaved_clarification(st, sv, arts, glob, inv, val) ==
    LET keep(res) == [result |-> res, state |-> st, saved |-> sv, artifacts |-> arts] IN
    IF st.stage = "COMPLETE"
        THEN keep(MkResult("SUCCESS", "Workflow complete", None, FALSE))
    ELSE IF st.stage \in glob
        THEN [keep(MkResult("SKIPPED", "skipped (condition met)", None, FALSE))
                EXCEPT !.artifacts = arts \cup {SkipArtifact(st.stage)}]
    ELSE IF Artifact("QUESTIONS") \in arts /\ Artifact("ANSWERS") \notin arts
        THEN LET st1 == [st EXCEPT !.clarification_required = TRUE] IN
             [result |-> MkResult("CLARIFICATION_NEEDED", "clarification", None, FALSE),
              state |-> st1, saved |-> sv, artifacts |-> arts]
    ELSE IF st.stage = "PREFLIGHT"
        THEN IF val.success
                THEN keep(MkResult("SUCCESS", val.message, None, FALSE))
                ELSE keep(MkResult("PREFLIGHT_FAILED", val.message, None, FALSE))
    ELSE IF ~inv.success
        THEN keep(inv)
    ELSE IF val.success
        THEN keep(MkResult("SUCCESS", val.message, None, FALSE))
    ELSE IF val.needs_user_decision
        THEN keep(MkResult("USER_DECISION_NEEDED", val.message, None, FALSE))
    ELSE IF val.rollback_to # None
        THEN keep(MkResult("ROLLBACK_REQUIRED", val.message, val.rollback_to,
                           val.is_fast_track))
    ELSE keep(MkResult("VALIDATION_FAILED", val.message, None, FALSE))

\* execute_stage looking for outstanding questions before the skip condition
execute_stage_clarification_first(st, sv, arts, glob, inv, val) ==
    LET keep(res) == [result |-> res, state |-> st, saved |-> sv, artifacts |-> arts] IN
    IF st.stage = "COMPLETE"
        THEN keep(MkResult("SUCCESS", "Workflow complete", None, FALSE))
    ELSE IF Artifact("QUESTIONS") \in arts /\ Artifact("ANSWERS") \notin arts
        THEN LET st1 == [st EXCEPT !.clarification_required = TRUE] IN
             [result |-> MkResult("CLARIFICATION_NEEDED", "clarification", None, FALSE),
              state |-> st1, saved |-> st1, artifacts |-> arts]
    ELSE IF st.stage \in glob
        THEN [keep(MkResult("SKIPPED", "skipped (condition met)", None, FALSE))
                EXCEPT !.artifacts = arts \cup {SkipArtifact(st.stage)}]
    ELSE IF st.stage = "PREFLIGHT"
        THEN IF val.success
                THEN keep(MkResult("SUCCESS", val.message, None, FALSE))
                ELSE keep(MkResult("PREFLIGHT_FAILED", val.message, None, FALSE))
    ELSE IF ~inv.success
        THEN keep(inv)
    ELSE IF val.success
        THEN keep(MkResult("SUCCESS", val.message, None, FALSE))
    ELSE IF val.needs_user_decision
        THEN keep(MkResult("USER_DECISION_NEEDED", val.message, None, FALSE))
    ELSE IF val.rollback_to # None
        THEN keep(MkResult("ROLLBACK_REQUIRED", val.message, val.rollback_to,
                           val.is_fast_track))
    ELSE keep(MkResult("VALIDATION_FAILED", val.message, None, FALSE))

\* execute_stage(state) with the backend answering inv and the validator
\* answering val: the StageResult and what it leaves behind
execute_stage(st, sv, arts, glob, inv, val) ==
    LET keep(res) == [result |-> res, state |-> st, saved |-> sv, artifacts |-> arts] IN
    IF st.stage = "COMPLETE"
        THEN keep(MkResult("SUCCESS", "Workflow complete", None, FALSE))
    ELSE IF st.stage \in glob
        THEN [keep(MkResult("SKIPPED", "skipped (condition met)", None, FALSE))
                EXCEPT !.artifacts = arts \cup {SkipArtifact(st.stage)}]
    ELSE IF Artifact("QUESTIONS") \in arts /\ Artifact("ANSWERS") \notin arts
        THEN LET st1 == [st EXCEPT !.clarification_required = TRUE] IN
             [result |-> MkResult("CLARIFICATION_NEEDED", "clarification", None, FALSE),
              state |-> st1, saved |-> st1, artifacts |-> arts]
    ELSE IF st.stage = "PREFLIGHT"
        THEN IF val.success
                THEN keep(MkResult("SUCCESS", val.message, None, FALSE))
                ELSE keep(MkResult("PREFLIGHT_FAILED", val.message, None, FALSE))
    ELSE IF ~inv.success
        THEN keep(inv)
    ELSE IF val.success
        THEN keep(MkResult("SUCCESS", val.message, None, FALSE))
    ELSE IF val.needs_user_decision
        THEN keep(MkResult("USER_DECISION_NEEDED", val.message, None, FALSE))
    ELSE IF val.rollback_to # None
        THEN keep(MkResult("ROLLBACK_REQUIRED", val.message, val.rollback_to,
                           val.is_fast_track))
    ELSE keep(MkResult("VALIDATION_FAILED", val.message, None, FALSE))

\* execute_stage that validates whatever the backend answered
execute_stage_calls_always_validate(st, arts, glob, inv, read_only_output) ==
    IF st.stage = "COMPLETE" THEN <<>>
    ELSE IF st.stage \in glob THEN <<"should_skip_stage">>
    ELSE IF Artifact("QUESTIONS") \in arts /\ Artifact("ANSWERS") \notin arts
        THEN <<"should_skip_stage">>
    ELSE IF st.stage = "PREFLIGHT" THEN <<"should_skip_stage", "validate_stage">>
    ELSE <<"should_skip_stage", "invoke">>
            \o (IF read_only_output THEN <<"write_artifacts">> ELSE <<>>)
            \o <<"validate_stage">>

\* the calls execute_stage makes to its collaborators, in order:
\* ValidationRunner.should_skip_stage, backend.invoke,
\* _write_artifacts_from_readonly_output (for a read-only backend that
\* returned output) and ValidationRunner.validate_stage
execute_stage_calls(st, arts, glob, inv, read_only_output) ==
    IF st.stage = "COMPLETE" THEN <<>>
    ELSE IF st.stage \in glob THEN <<"should_skip_stage">>
    ELSE IF Artifact("QUESTIONS") \in arts /\ Artifact("ANSWERS") \notin arts
        THEN <<"should_skip_stage">>
    ELSE IF st.stage = "PREFLIGHT" THEN <<"should_skip_stage", "validate_stage">>
    ELSE IF ~inv.success THEN <<"should_skip_stage", "invoke">>
    ELSE <<"should_skip_stage", "invoke">>
            \o (IF read_only_output THEN <<"write_artifacts">> ELSE <<>>)
            \o <<"validate_stage">>

----------------------------------------------------------------------------
(* Run loop: _run_workflow_legacy *)

\* config.stages.max_retries
max_retries == 2

\* rollbacks requested in one run of the loop
MaxLoopHistory == 1

\* the check after a failure was counted
ceiling_exceeded_late(st) == st.attempt > max_retries + 1

ceiling_exceeded(st) == st.attempt > max_retries

\* what the backend can answer
InvokeResults ==
    {MkResult(t, "m1", None, FALSE) :
        t \in {"SUCCESS", "PAUSED", "TIMEOUT", "MAX_TURNS", "ERROR"}}

\* the rollback targets the validator names in the run loop: the validator
\* is free to name any stage, also the failing stage or a later one
LoopRollbackTargets == {"DEV", "TEST"}

\* what the validator can answer for stage s
ValidationResults(s) ==
    {ValidationResult(TRUE, "m1", None, FALSE, FALSE),
     ValidationResult(FALSE, "m1", None, FALSE, FALSE),
     ValidationResult(FALSE, "m1", None, TRUE, FALSE)}
    \cup (IF s \in RollbackSources
            THEN {ValidationResult(FALSE, "m1", t, FALSE, ft) :
                    t \in LoopRollbackTargets, ft \in BOOLEAN}
            ELSE {})

\* config.stages.skip of the runs explored
LoopConfigs ==
    {{"BENCHMARK", "SECURITY", "REVIEW"},
     {"BENCHMARK", "SECURITY", "REVIEW", "DOCS", "COMPLETE"}}

\* the WorkflowState the loop is started with: a new task, a task reloaded
\* inside a fast-track window with TEST already passed, or a task reloaded
\* at QA after MAX_ROLLBACKS recent rollbacks to DEV
LoopStarts ==
    {NewState("PM", {}),
     [NewState("DEV", {}) EXCEPT !.fast_track = TRUE, !.passed_stages = {"TEST"}],
     [NewState("QA", {}) EXCEPT !.rollback_history =
        [i \in 1 .. MAX_ROLLBACKS |->
            [timestamp |-> 0, from_stage |-> "QA", to_stage |-> "DEV",
             reason |-> "m1"]]]}

\* the task's artifacts when the loop starts: none, or questions a stage
\* left behind that nobody has answered
LoopArtifacts == {{}, {Artifact("QUESTIONS")}}

InitLoop ==
    /\ state \in LoopStarts
    /\ saved = state
    /\ cfg_skip \in LoopConfigs
    /\ artifacts \in LoopArtifacts
    /\ glob_skip = {"MIGRATION", "CONTRACT", "DOCS"}
    /\ rollback_md = <<>>
    /\ resolved_md = <<>>
    /\ now = 0
    /\ rb_call = NoCall
    /\ pc = "loop"
    /\ result = NoResult
    /\ pause_requested = FALSE
    /\ fail_run = 0
    /\ child = NoChild
    /\ runner = NoRun
    /\ ex = NoExec
    /\ InitSide
    /\ r_current = "PM"
    /\ r_result = "unset"

\* _handle_pause: clear the flag, save the state, return
HandlePause ==
    /\ pause_requested' = FALSE
    /\ saved' = state
    /\ pc' = "paused"

\* the success path after any approval gate: archive, advance, save
AdvanceAndSave ==
    /\ resolved_md' = IF state.stage = "DEV"
                        THEN archive_rollback_if_exists(rollback_md, resolved_md, now)
                        ELSE resolved_md
    /\ rollback_md' = IF state.stage = "DEV" THEN <<>> ELSE rollback_md
    /\ state' = advance(state, cfg_skip, artifacts, glob_skip)
    /\ saved' = state'
    /\ pc' = "loop"

\* SIGINT: _signal_handler
SignalHandler ==
    /\ pc \in {"loop", "executing", "handle"}
    /\ ~pause_requested
    /\ pause_requested' = TRUE
    /\ UNCHANGED <<state, saved, envVars, resolverVars, runVars, sideVars, ex, logVars, now, rb_call,
                   pc, result, fail_run>>

\* top of the loop: leave it at COMPLETE, pause if requested, else execute
LoopTop ==
    /\ pc = "loop"
    /\ IF state.stage = "COMPLETE"
         THEN /\ pc' = "complete_prompt"
              /\ UNCHANGED <<saved, pause_requested>>
         ELSE IF pause_requested
                THEN HandlePause
                ELSE /\ pc' = "executing"
                     /\ UNCHANGED <<saved, pause_requested>>
    /\ UNCHANGED <<state, envVars, resolverVars, runVars, sideVars, ex, logVars, now, rb_call, result, fail_run>>

\* execute_stage returns; a PAUSED result is the backend seeing the pause flag
StageExecutes(inv, val) ==
    /\ pc = "executing"
    /\ LET out == execute_stage(state, saved, artifacts, glob_skip, inv, val) IN
        /\ (inv.type = "PAUSED") = pause_requested
        /\ out.result.type = "ROLLBACK_REQUIRED" =>
                \/ Len(state.rollback_history) < MaxLoopHistory
                \/ ~should_allow_rollback(state, out.result.rollback_to, now)
        /\ result' = out.result
        /\ state' = out.state
        /\ saved' = out.saved
        /\ artifacts' = out.artifacts
        /\ fail_run' = IF out.result.type = "VALIDATION_FAILED"
                         THEN fail_run + 1 ELSE 0
    /\ ex' = [NoExec EXCEPT !.done = TRUE,
                             !.calls = execute_stage_calls(state, artifacts, glob_skip,
                                                           inv, FALSE)]
    /\ pc' = "handle"
    /\ UNCHANGED <<cfg_skip, glob_skip, resolverVars, runVars, sideVars, logVars, now, rb_call,
                   pause_requested>>

\* the loop body after execute_stage returned
HandleResult ==
    /\ pc = "handle"
    /\ result' = NoResult
    /\ IF pause_requested \/ result.type = "PAUSED"
         THEN /\ HandlePause
              /\ UNCHANGED <<state, artifacts, logVars, rb_call>>
       ELSE IF ~result.success
         THEN IF result.type = "PREFLIGHT_FAILED"
                THEN /\ pc' = "preflight_prompt"
                     /\ UNCHANGED <<state, saved, artifacts, logVars, rb_call,
                                    pause_requested>>
              ELSE IF state.awaiting_approval \/ state.clarification_required
                THEN /\ saved' = state
                     /\ pc' = "returned"
                     /\ UNCHANGED <<state, artifacts, logVars, rb_call,
                                    pause_requested>>
              ELSE LET out == handle_rollback(state, saved, rollback_md, result, now) IN
                IF out.ret
                  THEN /\ state' = out.state
                       /\ saved' = out.saved
                       /\ rollback_md' = out.rollback_md
                       /\ rb_call' = [called |-> TRUE, target |-> result.rollback_to,
                                      ret |-> TRUE]
                       /\ pc' = "loop"
                       /\ UNCHANGED <<artifacts, resolved_md, pause_requested>>
                  ELSE LET st1 == [state EXCEPT !.attempt = @ + 1,
                                                !.last_failure = result.message] IN
                       /\ state' = st1
                       /\ rb_call' = [called |-> TRUE, target |-> result.rollback_to,
                                      ret |-> FALSE]
                       /\ IF ceiling_exceeded(st1)
                            THEN /\ pc' = "ceiling_prompt"
                                 /\ UNCHANGED saved
                            ELSE /\ saved' = st1
                                 /\ pc' = "loop"
                       /\ UNCHANGED <<artifacts, logVars, pause_requested>>
       ELSE IF state.stage = "PM" /\ Artifact("APPROVAL") \notin artifacts
         THEN /\ pc' = "approval_prompt"
              /\ UNCHANGED <<state, saved, artifacts, logVars, rb_call, pause_requested>>
       ELSE /\ AdvanceAndSave
            /\ UNCHANGED <<artifacts, rb_call, pause_requested>>
    /\ ex' = NoExec
    /\ UNCHANGED <<cfg_skip, glob_skip, resolverVars, runVars, sideVars, now, fail_run>>

\* the user answers "Fix environment issues and retry?"
PreflightChoice(choice) ==
    /\ pc = "preflight_prompt"
    /\ fail_run' = 0
    /\ IF choice = "retry"
         THEN /\ pc' = "loop"
              /\ UNCHANGED saved
         ELSE /\ saved' = state
              /\ pc' = "returned"
    /\ UNCHANGED <<state, envVars, resolverVars, runVars, sideVars, ex, logVars, now, rb_call, result,
                   pause_requested>>

\* the user answers the ceiling-exceeded prompt: retry, fix in DEV or quit
CeilingChoice(choice, feedback) ==
    /\ pc = "ceiling_prompt"
    /\ fail_run' = 0
    /\ IF choice = "retry"
         THEN /\ state' = [state EXCEPT !.attempt = 1]
              /\ saved' = state'
              /\ pc' = "loop"
       ELSE IF choice = "fix_in_dev"
         THEN /\ state' = [state EXCEPT
                    !.stage = "DEV", !.attempt = 1,
                    !.last_failure =
                        <<"Feedback from", state.stage,
                          IF feedback = "" THEN "Fix the failing stage" ELSE feedback,
                          state.last_failure>>]
              /\ saved' = state'
              /\ pc' = "loop"
       ELSE /\ saved' = state
            /\ pc' = "returned"
            /\ UNCHANGED state
    /\ UNCHANGED <<envVars, resolverVars, runVars, sideVars, ex, logVars, now, rb_call, result, pause_requested>>

\* prompt_plan_approval answers: approved, rejected or quit
ApprovalChoice(choice) ==
    /\ pc = "approval_prompt"
    /\ fail_run' = 0
    /\ IF choice = "approved"
         THEN /\ artifacts' = artifacts \cup {Artifact("APPROVAL")}
              /\ resolved_md' = resolved_md
              /\ rollback_md' = rollback_md
              /\ state' = advance(state, cfg_skip, artifacts', glob_skip)
              /\ saved' = state'
              /\ pc' = "loop"
              /\ UNCHANGED pause_requested
       ELSE IF choice = "rejected"
         THEN /\ state' = [state EXCEPT !.stage = "PM", !.attempt = 1,
                                        !.last_failure = <<"Plan rejected", "reason">>]
              /\ saved' = state'
              /\ pc' = "loop"
              /\ UNCHANGED <<artifacts, logVars, pause_requested>>
       ELSE /\ HandlePause
            /\ UNCHANGED <<state, artifacts, logVars>>
    /\ UNCHANGED <<cfg_skip, glob_skip, resolverVars, runVars, sideVars, ex, now, rb_call, result>>

\* the user answers the completion prompt: finalize, back to DEV or quit
CompleteChoice(choice) ==
    /\ pc = "complete_prompt"
    /\ fail_run' = 0
    /\ IF choice = "yes"
         THEN /\ pc' = "finalized"
              /\ UNCHANGED <<state, saved, pause_requested>>
       ELSE IF choice = "no"
         THEN /\ state' = [state EXCEPT !.stage = "DEV", !.attempt = 1]
              /\ saved' = state'
              /\ pc' = "loop"
              /\ UNCHANGED pause_requested
       ELSE /\ HandlePause
            /\ UNCHANGED state
    /\ UNCHANGED <<envVars, resolverVars, runVars, sideVars, ex, logVars, now, rb_call, result>>

\* feedback is written only while the archive has fewer blocks than this
MaxArchived == 1

\* the TUI loop's answer "no" at the completion prompt: the feedback, if
\* any, is written to ROLLBACK.md with write_artifact, replacing the file
ManualReviewChoice(feedback) ==
    /\ pc = "complete_prompt"
    /\ feedback # "" => Len(resolved_md) < MaxArchived
    /\ fail_run' = 0
    /\ rollback_md' =
        IF feedback # ""
            THEN <<[source |-> "Manual review at COMPLETE stage", date |-> now,
                    from_stage |-> None, target_stage |-> None,
                    reason |-> feedback]>>
        ELSE rollback_md
    /\ state' = [state EXCEPT
            !.stage = "DEV", !.attempt = 1,
            !.last_failure =
                IF feedback # "" THEN <<"Manual review feedback", feedback>>
                ELSE "Manual review requested changes (no details provided)"]
    /\ saved' = state'
    /\ pc' = "loop"
    /\ UNCHANGED <<envVars, resolverVars, runVars, sideVars, ex, resolved_md, now, rb_call, result,
                   pause_requested>>

Next ==
    \/ SignalHandler
    \/ LoopTop
    \/ \E inv \in InvokeResults :
         \E val \in ValidationResults(state.stage) : StageExecutes(inv, val)
    \/ HandleResult
    \/ \E c \in {"retry", "quit"} : PreflightChoice(c)
    \/ \E c \in {"retry", "fix_in_dev", "quit"}, fb \in {"", "fb"} : CeilingChoice(c, fb)
    \/ \E c \in {"approved", "rejected", "quit"} : ApprovalChoice(c)
    \/ \E c \in {"yes", "no", "quit"} : CompleteChoice(c)
    \/ \E fb \in {"", "fb"} : ManualReviewChoice(fb)

Spec == InitLoop /\ [][Next]_vars

----------------------------------------------------------------------------
(* Run loop properties *)

\* C5: a stage that keeps failing validation without a rollback target is
\* executed automatically at most max_retries times in a row: once the
\* max_retries-th consecutive failure has come back, the loop is handling it,
\* is at the ceiling-exceeded choice, or has returned for a requested pause;
\* it is never executing the stage again.
C5_RetryCeiling ==
    /\ fail_run <= max_retries
    /\ fail_run = max_retries => pc \in {"handle", "ceiling_prompt", "paused"}
    /\ (fail_run = max_retries /\ pc = "ceiling_prompt") =>
            state.attempt = max_retries + 1

C5_Witness ==
    /\ pc = "ceiling_prompt"
    /\ fail_run = max_retries
    /\ state.attempt > max_retries
    /\ saved.attempt = max_retries

\* a step of the loop that takes the success path past any approval gate
SuccessStep ==
    \/ /\ pc = "handle"
       /\ pc' = "loop"
       /\ result.success
       /\ ~(state.stage = "PM" /\ Artifact("APPROVAL") \notin artifacts)
    \/ /\ pc = "approval_prompt"
       /\ pc' = "loop"
       /\ Artifact("APPROVAL") \in artifacts'

\* C9: when stage S succeeded and any approval gate is satisfied, the loop
\* moves to S' = get_next_stage(S) with attempt 1, last_failure,
\* awaiting_approval and clarification_required cleared, and persists the
\* state; when get_next_stage returns None it moves to COMPLETE and persists.
C9_SuccessAdvances ==
    [][SuccessStep =>
        LET next_stage == get_next_stage(state.stage, state, cfg_skip,
                                         artifacts', glob_skip) IN
        /\ saved' = state'
        /\ IF next_stage # None
             THEN /\ state'.stage = next_stage
                  /\ state'.attempt = 1
                  /\ state'.last_failure = None
                  /\ ~state'.awaiting_approval
                  /\ ~state'.clarification_required
             ELSE state'.stage = "COMPLETE"]_vars

C9_Witness ==
    /\ pc = "loop"
    /\ state.stage = "DESIGN"
    /\ state.attempt = 1
    /\ state.last_failure = None
    /\ Artifact("APPROVAL") \in artifacts
    /\ state.rollback_history = <<>>
    /\ saved = state

----------------------------------------------------------------------------
(* Process supervisor: SubprocessRunner.run *)

\* self.timeout and self.idle_interval, in poll intervals
RunTimeout == 2
IdleInterval == 2

\* lines the child writes at most
MaxLines == 2

SIGTERM == "SIGTERM"
SIGKILL == "SIGKILL"

RunResult(outcome, exit_code, output, timeout_seconds) ==
    [outcome |-> outcome, exit_code |-> exit_code, output |-> output,
     timeout_seconds |-> timeout_seconds]

\* Popen.poll: reap the child if it has exited
poll(ch) ==
    IF ch.status = "exited" THEN [ch EXCEPT !.status = "reaped"] ELSE ch

\* Popen.returncode
returncode(ch) ==
    IF ch.status = "reaped" THEN ch.code ELSE Nothing

\* Popen.send_signal: poll first, signal only a child not known to be dead
send_signal(ch, sig) ==
    LET c == poll(ch) IN
    IF c.status = "running"
        THEN [c EXCEPT !.pending = @ \cup {sig}, !.sent = Append(@, sig)]
    ELSE c

\* Popen.terminate and Popen.kill
terminate(ch) == send_signal(ch, SIGTERM)
kill(ch) == send_signal(ch, SIGKILL)

\* an exception handler that does not touch the child
on_exception_no_kill(ch) == ch

\* the handler of `except Exception` in run, before it re-raises
on_exception(ch) == kill(ch)

RECURSIVE Drop(_, _)
Drop(seq, k) == IF k = 0 THEN seq ELSE Drop(Tail(seq), k - 1)

Take(seq, k) == SubSeq(seq, 1, k)

InitRunner ==
    /\ state = NewState("DEV", {})
    /\ saved = state
    /\ cfg_skip = {}
    /\ artifacts = {}
    /\ glob_skip = {}
    /\ rollback_md = <<>>
    /\ resolved_md = <<>>
    /\ now = 0
    /\ rb_call = NoCall
    /\ pc = "executing"
    /\ result = NoResult
    /\ pause_requested = FALSE
    /\ fail_run = 0
    /\ r_current = "PM"
    /\ r_result = "unset"
    /\ \E ig \in BOOLEAN : child = [NoChild EXCEPT !.ignores_term = ig]
    /\ runner = [NoRun EXCEPT !.pc = "start"]
    /\ ex = NoExec
    /\ InitSide

notRunVars ==
    <<state, saved, envVars, resolverVars, logVars, now, rb_call, loopVars, ex,
      sideVars>>

\* the child writes a line to its stdout
ChildWrites ==
    /\ child.status = "running"
    /\ child.written < MaxLines
    /\ child' = [child EXCEPT !.written = @ + 1, !.pipe = Append(@, child.written + 1)]
    /\ UNCHANGED <<runner, notRunVars>>

\* the child exits on its own
ChildExits(code) ==
    /\ child.status = "running"
    /\ child' = [child EXCEPT !.status = "exited", !.code = Some(code), !.pending = {}]
    /\ UNCHANGED <<runner, notRunVars>>

\* a pending signal reaches the child: SIGKILL always ends it, SIGTERM ends
\* it unless it ignores the signal
ChildSignalled ==
    /\ child.status = "running"
    /\ child.pending # {}
    /\ child' =
        IF SIGKILL \in child.pending
            THEN [child EXCEPT !.status = "exited", !.code = Some(-9), !.pending = {}]
        ELSE IF child.ignores_term
            THEN [child EXCEPT !.pending = {}]
        ELSE [child EXCEPT !.status = "exited", !.code = Some(-15), !.pending = {}]
    /\ UNCHANGED <<runner, notRunVars>>

\* subprocess.Popen(...): outside the try block, a failure propagates
Popen(ok) ==
    /\ runner.pc = "start"
    /\ IF ok
         THEN /\ child' = [child EXCEPT !.status = "running"]
              /\ runner' = [runner EXCEPT !.pc = "poll"]
         ELSE /\ runner' = [runner EXCEPT !.pc = "raised"]
              /\ UNCHANGED child
    /\ UNCHANGED notRunVars

\* retcode = process.poll()
Poll ==
    /\ runner.pc = "poll"
    /\ child' = poll(child)
    /\ runner' = [runner EXCEPT !.retcode = returncode(child'),
                                !.returncode = returncode(child'),
                                !.pc = "read"]
    /\ UNCHANGED notRunVars

\* _read_output and the lines after it: k lines are read and each is passed
\* to on_output (kept in `forwarded`), then the pipe is
\* drained, or a ValueError/TypeError/OSError of select, readline or
\* on_output is swallowed, or on_output raises something else
ReadOutput(k, outcome) ==
    /\ runner.pc = "read"
    /\ k \in 0 .. Len(child.pipe)
    /\ outcome = "drained" => k = Len(child.pipe)
    /\ outcome = "raised" => k >= 1
    /\ LET lines == runner.output_lines \o Take(child.pipe, k)
           ch == [child EXCEPT !.pipe = Drop(@, k)]
       IN IF outcome = "raised"
            THEN /\ child' = on_exception(ch)
                 /\ runner' = [runner EXCEPT !.output_lines = lines,
                                             !.forwarded = @ \o Take(child.pipe, k),
                                             !.returncode = returncode(child'),
                                             !.pc = "raised"]
            ELSE /\ child' = ch
                 /\ runner' = [runner EXCEPT
                        !.output_lines = lines,
                        !.forwarded = @ \o Take(child.pipe, k),
                        !.had_output = (k > 0),
                        !.last_idle_callback = IF k > 0 THEN runner.elapsed ELSE @,
                        !.read_error = @ \/ (outcome = "swallowed"),
                        !.pc = IF runner.retcode # Nothing THEN "capture"
                               ELSE "pause_check"]
    /\ UNCHANGED notRunVars

\* the pause check with the timeout looked at first
PauseCheck_after_timeout ==
    /\ runner.pc = "pause_check"
    /\ IF runner.elapsed > RunTimeout
         THEN /\ child' = kill(child)
              /\ runner' = [runner EXCEPT
                    !.returncode = returncode(child'),
                    !.result = RunResult("TIMEOUT", Nothing, runner.output_lines,
                                         Some(RunTimeout)),
                    !.pc = "returned"]
         ELSE IF pause_requested
         THEN /\ child' = terminate(child)
              /\ runner' = [runner EXCEPT !.returncode = returncode(child'),
                                          !.pc = "term_wait"]
         ELSE /\ runner' = [runner EXCEPT !.pc = "timeout_check"]
              /\ UNCHANGED child
    /\ UNCHANGED notRunVars

\* pause_check(): on a pause request terminate the child and wait for it
PauseCheck ==
    /\ runner.pc = "pause_check"
    /\ IF pause_requested
         THEN /\ child' = terminate(child)
              /\ runner' = [runner EXCEPT !.returncode = returncode(child'),
                                          !.pc = "term_wait"]
         ELSE /\ runner' = [runner EXCEPT !.pc = "timeout_check"]
              /\ UNCHANGED child
    /\ UNCHANGED notRunVars

\* process.wait(timeout=5) returns: the child exited within the grace period
WaitReturns ==
    /\ runner.pc = "term_wait"
    /\ child.status \in {"exited", "reaped"}
    /\ child' = poll(child)
    /\ runner' = [runner EXCEPT
            !.returncode = returncode(child'),
            !.result = RunResult("PAUSED", Nothing, runner.output_lines, Nothing),
            !.pc = "returned"]
    /\ UNCHANGED notRunVars

\* process.wait(timeout=5) raises TimeoutExpired: the child is still running
\* after the grace period and is killed; nothing waits for it afterwards
WaitTimeoutExpired ==
    /\ runner.pc = "term_wait"
    /\ child.status = "running"
    /\ child' = kill(child)
    /\ runner' = [runner EXCEPT
            !.result = RunResult("PAUSED", Nothing, runner.output_lines, Nothing),
            !.pc = "returned"]
    /\ UNCHANGED notRunVars

\* elapsed > self.timeout: kill and return TIMEOUT
TimeoutCheck ==
    /\ runner.pc = "timeout_check"
    /\ IF runner.elapsed > RunTimeout
         THEN /\ child' = kill(child)
              /\ runner' = [runner EXCEPT
                    !.returncode = returncode(child'),
                    !.result = RunResult("TIMEOUT", Nothing, runner.output_lines,
                                         Some(RunTimeout)),
                    !.pc = "returned"]
         ELSE /\ runner' = [runner EXCEPT !.pc = "idle"]
              /\ UNCHANGED child
    /\ UNCHANGED notRunVars

\* the idle callback, when due; it may raise
IdleCallback(raises) ==
    /\ runner.pc = "idle"
    /\ LET due == runner.elapsed - runner.last_idle_callback >= IdleInterval IN
        /\ raises => due
        /\ IF raises
             THEN /\ child' = on_exception(child)
                  /\ runner' = [runner EXCEPT !.returncode = returncode(child'),
                                              !.pc = "raised"]
             ELSE /\ runner' = [runner EXCEPT
                        !.last_idle_callback = IF due THEN runner.elapsed ELSE @,
                        !.pc = "sleep"]
                  /\ UNCHANGED child
    /\ UNCHANGED notRunVars

\* time.sleep(poll interval)
Sleep ==
    /\ runner.pc = "sleep"
    /\ runner' = [runner EXCEPT !.elapsed = @ + 1, !.pc = "poll"]
    /\ UNCHANGED <<child, notRunVars>>

\* after the loop: _capture_remaining and the COMPLETED result; an error of
\* communicate is swallowed and the remaining output dropped
CaptureRemaining(ok) ==
    /\ runner.pc = "capture"
    /\ child' = [child EXCEPT !.pipe = <<>>]
    /\ LET lines == IF ok THEN runner.output_lines \o child.pipe
                    ELSE runner.output_lines
       IN runner' = [runner EXCEPT
            !.output_lines = lines,
            !.read_error = @ \/ ~ok,
            !.result = RunResult("COMPLETED", runner.returncode, lines, Nothing),
            !.pc = "returned"]
    /\ UNCHANGED notRunVars

NextRunner ==
    \/ SignalHandler
    \/ ChildWrites
    \/ \E code \in {0, 1} : ChildExits(code)
    \/ ChildSignalled
    \/ \E ok \in BOOLEAN : Popen(ok)
    \/ Poll
    \/ \E k \in 0 .. MaxLines, outcome \in {"drained", "swallowed", "raised"} :
         ReadOutput(k, outcome)
    \/ PauseCheck
    \/ WaitReturns
    \/ WaitTimeoutExpired
    \/ TimeoutCheck
    \/ \E raises \in BOOLEAN : IdleCallback(raises)
    \/ Sleep
    \/ \E ok \in BOOLEAN : CaptureRemaining(ok)

SpecRunner == InitRunner /\ [][NextRunner]_vars

----------------------------------------------------------------------------
(* Process supervisor properties *)

RunReturned(outcome) ==
    runner.pc = "returned" /\ runner.result.outcome = outcome

\* C6: when run returns TIMEOUT, timeout_seconds is the configured timeout,
\* the child has been sent SIGKILL and it is confirmed terminated (waited
\* for, so neither running nor a zombie).
C6_TimeoutKillsAndConfirms ==
    RunReturned("TIMEOUT") =>
        /\ runner.result.timeout_seconds = Some(RunTimeout)
        /\ child.status = "reaped"

\* C7: when run returns PAUSED, the child was sent SIGTERM first and SIGKILL
\* only after the grace period, and no child is left running or unreaped.
C7_PauseLeavesNoChild ==
    RunReturned("PAUSED") =>
        /\ child.sent # <<>> => child.sent[1] = SIGTERM
        /\ child.status = "reaped"

\* C8 as stated: run never raises, and a run that met a supervisor-level
\* error returns COMPLETED with a non-zero exit code.
C8_ExceptionsSurfaced ==
    /\ runner.pc # "raised"
    /\ (runner.pc = "returned" /\ runner.read_error) =>
            /\ runner.result.outcome = "COMPLETED"
            /\ runner.result.exit_code \notin {Nothing, Some(0)}

\* C8: an exception of the poll loop is not turned into a RunResult: run
\* raises it after a force-kill of the child (a child not known to be dead
\* has SIGKILL on its way), a failure to start the child is raised with no
\* child at all, and the exit code of a COMPLETED result is always the
\* child's own return code, never a synthetic one.
C8_ExceptionsPropagate ==
    /\ runner.pc = "raised" =>
            /\ runner.result = NoRunResult
            /\ \/ child.status \in {"none", "exited", "reaped"}
               \/ SIGKILL \in child.pending
    /\ RunReturned("COMPLETED") =>
            /\ child.status = "reaped"
            /\ runner.result.exit_code = child.code

C8_Witness ==
    /\ runner.pc = "raised"
    /\ runner.output_lines # <<>>
    /\ child.status = "running"
    /\ SIGKILL \in child.pending
    /\ runner.result = NoRunResult

----------------------------------------------------------------------------
(* Rollbacks in the run loop, checked under Spec *)

\* a step of the loop in which handle_rollback returned True
AcceptStep ==
    /\ pc = "handle"
    /\ pc' = "loop"
    /\ result.type = "ROLLBACK_REQUIRED"
    /\ rb_call'.called
    /\ rb_call'.ret

\* C11: when handle_rollback accepts ROLLBACK_REQUIRED(target, message)
\* raised at stage F, then on return stage = target, attempt = 1,
\* last_failure holds the reason naming F and the message, exactly one entry
\* (F, target, message) was appended to the history, and the state is saved.
C11_AcceptedRollback ==
    [][AcceptStep =>
        LET h == state.rollback_history
            h1 == state'.rollback_history
        IN /\ state'.stage = result.rollback_to
           /\ state'.attempt = 1
           /\ state'.last_failure = <<"Rollback from", state.stage, result.message>>
           /\ Len(h1) = Len(h) + 1
           /\ SubSeq(h1, 1, Len(h)) = h
           /\ h1[Len(h1)].from_stage = state.stage
           /\ h1[Len(h1)].to_stage = result.rollback_to
           /\ h1[Len(h1)].reason = result.message
           /\ saved' = state']_vars

\* a rollback accepted after a counted failure of the stage
C11_Witness ==
    /\ pc = "loop"
    /\ rb_call.called /\ rb_call.ret
    /\ state.stage = rb_call.target
    /\ state.attempt = 1
    /\ Len(state.rollback_history) = 1
    /\ state.rollback_history[1].to_stage = state.stage
    /\ state.last_failure =
            <<"Rollback from", state.rollback_history[1].from_stage, "m1">>
    /\ saved = state

\* stage s is skipped by a rule other than fast-track: the config skip list,
\* the task type, the stage plan, or the conditional-stage checks
SkippedByOtherRule(st, s, skip, arts, glob) ==
    \/ s \in skip
    \/ should_skip_for_task_type(s, st.task_type)
    \/ PlanAction(st, s) = "skip"
    \/ /\ s \in DOMAIN CONDITIONAL_STAGES
       /\ \/ CONDITIONAL_STAGES[s] \in arts
          \/ PlanAction(st, s) # "run" /\ s \in glob

\* the stages the resolver passes over when it is asked for the stage after c
PassedOver(c, st, skip, arts, glob) ==
    LET n == get_next_stage(c, st, skip, arts, glob) IN
    {s \in Stage : /\ StageIndex(s) > StageIndex(c)
                   /\ n # None => StageIndex(s) < StageIndex(n)}

\* C12: an accepted rollback with fast_track = true leaves fast-track active
\* and keeps the passed stages, and the resolver never returns one of them;
\* an accepted rollback with fast_track = false leaves fast-track inactive
\* and the passed set empty, and from the target on the resolver passes over
\* no stage but those skipped by another rule, so each of the others is
\* executed again before COMPLETE.
C12_FastTrackOrFullRerun ==
    [][AcceptStep =>
        IF result.is_fast_track
          THEN /\ state'.fast_track
               /\ state'.passed_stages = state.passed_stages
               /\ \A c \in Stage :
                    get_next_stage(c, state', cfg_skip, artifacts', glob_skip)
                        \notin state'.passed_stages
          ELSE /\ ~state'.fast_track
               /\ state'.passed_stages = {}
               /\ \A c \in Stage : StageIndex(c) >= StageIndex(state'.stage) =>
                    \A s \in PassedOver(c, state', cfg_skip, artifacts', glob_skip) :
                        SkippedByOtherRule(state', s, cfg_skip, artifacts', glob_skip)]_vars

\* a full rollback has just closed a fast-track window that had TEST passed:
\* TEST is again the stage after DEV's successors
C12_Witness ==
    /\ pc = "loop"
    /\ rb_call.called /\ rb_call.ret
    /\ Len(state.rollback_history) = 1
    /\ state.stage = "DEV"
    /\ ~state.fast_track
    /\ state.passed_stages = {}
    /\ get_next_stage("DEV", state, cfg_skip, artifacts, glob_skip) = "TEST"
    /\ saved.passed_stages = {}

\* the entries of ROLLBACK_RESOLVED.md, in the order of the file
RECURSIVE ArchivedEntries(_)
ArchivedEntries(resolved) ==
    IF resolved = <<>> THEN <<>>
    ELSE ArchivedEntries(SubSeq(resolved, 1, Len(resolved) - 1))
            \o resolved[Len(resolved)].content

\* the rollback log: the archive followed by ROLLBACK.md
RollbackLog(resolved, md) == ArchivedEntries(resolved) \o md

IsPrefix(a, b) == Len(a) <= Len(b) /\ SubSeq(b, 1, Len(a)) = a

\* C13: no step of the run loop removes, alters or reorders an entry of the
\* rollback history or of the rollback log (ROLLBACK_RESOLVED.md followed by
\* ROLLBACK.md): the old history and the old log are prefixes of the new.
C13_AppendOnly ==
    [][/\ IsPrefix(state.rollback_history, state'.rollback_history)
       /\ IsPrefix(RollbackLog(resolved_md, rollback_md),
                   RollbackLog(resolved_md', rollback_md'))]_vars

\* C14: every accepted rollback moves the stage strictly backward: the new
\* current stage precedes, in STAGE_ORDER, the stage whose validation failed.
C14_StrictlyBackward ==
    [][AcceptStep => StageIndex(state'.stage) < StageIndex(state.stage)]_vars

\* a step of the loop in which loop prevention refused the rollback
RefusedStep ==
    /\ pc = "handle"
    /\ pc' # "handle"
    /\ ~pause_requested
    /\ result.type = "ROLLBACK_REQUIRED"
    /\ result.rollback_to # None
    /\ ~should_allow_rollback(state, result.rollback_to, now)

\* C15: when loop prevention refuses a rollback, the loop does not execute
\* the stage again on its own: its next step is the human choice (retry /
\* fix in DEV / quit), with the state persisted.
C15_RefusalEscalates ==
    [][RefusedStep => (pc' = "ceiling_prompt" /\ saved' = state')]_vars

----------------------------------------------------------------------------
(* One execute_stage call with every answer of its collaborators *)

\* every combination of the validator's fields
AllValidationResults ==
    {ValidationResult(ok, "m1", t, nd, ft) :
        ok \in BOOLEAN, t \in {None, "DEV"}, nd \in BOOLEAN, ft \in BOOLEAN}

\* the log file of a stage execution whose backend reported an error
OldLog == <<<<"Prompt", "prompt">>, <<"Output", "ERROR">>>>

\* the log files after execute_stage: the prompt is written with
\* open(log_file, "w"), the output and the validation with open(log_file, "a");
\* the file is logs/<stage>_<attempt>.log
execute_stage_logs(l, st, calls, inv, val) ==
    LET key == <<st.stage, st.attempt>>
        invoked == \E i \in 1 .. Len(calls) : calls[i] = "invoke"
        validated == \E i \in 1 .. Len(calls) : calls[i] = "validate_stage"
        content == <<<<"Prompt", "prompt">>, <<"Output", inv.type>>>>
                    \o (IF validated
                          THEN <<<<"Validation", IF val.success THEN "True" ELSE "False">>>>
                          ELSE <<>>)
    IN  IF invoked
          THEN [k \in DOMAIN l \cup {key} |-> IF k = key THEN content ELSE l[k]]
          ELSE l

InitExecutor ==
    /\ \E s \in Stage, a \in 1 .. max_retries : state = [NewState(s, {}) EXCEPT !.attempt = a]
    /\ saved = state
    /\ cfg_skip = {}
    /\ artifacts \in SUBSET {Artifact("QUESTIONS"), Artifact("ANSWERS")}
    /\ glob_skip \in {{}, {"MIGRATION", "DOCS"}, {"PREFLIGHT", "COMPLETE"}}
    /\ rollback_md = <<>>
    /\ resolved_md = <<>>
    /\ now = 0
    /\ rb_call = NoCall
    /\ pc = "executing"
    /\ result = NoResult
    /\ pause_requested = FALSE
    /\ fail_run = 0
    /\ r_current = "PM"
    /\ r_result = "unset"
    /\ child = NoChild
    /\ runner = NoRun
    /\ \E inv \in InvokeResults, val \in AllValidationResults, ro \in BOOLEAN :
         ex = [NoExec EXCEPT !.inv = inv, !.val = val, !.read_only_output = ro]
    /\ tui = NoTui
    /\ prompt = NoPrompt
    /\ logs \in {NoLogs, [k \in {<<state.stage, state.attempt>>} |-> OldLog]}
    /\ be = NoBackendCall

\* the call execute_stage(state)
ExecuteStage ==
    /\ ~ex.done
    /\ LET out == execute_stage(state, saved, artifacts, glob_skip, ex.inv, ex.val) IN
        /\ state' = out.state
        /\ saved' = out.saved
        /\ artifacts' = out.artifacts
        /\ ex' = [ex EXCEPT
                !.done = TRUE,
                !.result = out.result,
                !.calls = execute_stage_calls(state, artifacts, glob_skip, ex.inv,
                                              ex.read_only_output)]
    /\ logs' = execute_stage_logs(
                    logs, state,
                    execute_stage_calls(state, artifacts, glob_skip, ex.inv,
                                        ex.read_only_output),
                    ex.inv, ex.val)
    /\ UNCHANGED <<cfg_skip, glob_skip, resolverVars, runVars, tui, prompt, be, logVars,
                   now, rb_call, loopVars>>

NextExecutor == ExecuteStage

SpecExecutor == InitExecutor /\ [][NextExecutor]_vars

Called(name) == \E i \in 1 .. Len(ex.calls) : ex.calls[i] = name

\* the call reached the validation of a backend stage
Validated == ex.done /\ Called("invoke") /\ Called("validate_stage")

\* C16 as stated: after a successful invocation a validator success gives
\* SUCCESS, a failure carrying a rollback target gives ROLLBACK_REQUIRED with
\* that target and the validator's fast-track flag, a failure signalling
\* needs-user-decision gives USER_DECISION_NEEDED, any other failure gives
\* VALIDATION_FAILED.
C16_ValidatorMapping ==
    Validated =>
        ex.result =
            IF ex.val.success THEN MkResult("SUCCESS", ex.val.message, None, FALSE)
            ELSE IF ex.val.rollback_to # None
                THEN MkResult("ROLLBACK_REQUIRED", ex.val.message, ex.val.rollback_to,
                              ex.val.is_fast_track)
            ELSE IF ex.val.needs_user_decision
                THEN MkResult("USER_DECISION_NEEDED", ex.val.message, None, FALSE)
            ELSE MkResult("VALIDATION_FAILED", ex.val.message, None, FALSE)

\* C16: after a successful invocation a validator success gives SUCCESS; a
\* failure signalling needs-user-decision gives USER_DECISION_NEEDED, with
\* or without a rollback target; a failure with a rollback target and no
\* needs-user-decision gives ROLLBACK_REQUIRED with that target and the
\* validator's fast-track flag; any other failure gives VALIDATION_FAILED.
C16_DecisionBeforeRollback ==
    Validated =>
        ex.result =
            IF ex.val.success THEN MkResult("SUCCESS", ex.val.message, None, FALSE)
            ELSE IF ex.val.needs_user_decision
                THEN MkResult("USER_DECISION_NEEDED", ex.val.message, None, FALSE)
            ELSE IF ex.val.rollback_to # None
                THEN MkResult("ROLLBACK_REQUIRED", ex.val.message, ex.val.rollback_to,
                              ex.val.is_fast_track)
            ELSE MkResult("VALIDATION_FAILED", ex.val.message, None, FALSE)

\* a failure that both names a rollback target and needs a user decision
C16_Witness ==
    /\ Validated
    /\ ~ex.val.success
    /\ ex.val.rollback_to # None
    /\ ex.val.needs_user_decision
    /\ ex.result.type = "USER_DECISION_NEEDED"

\* C17: when the backend's result is not a success, execute_stage returns
\* that result unchanged and calls neither the artifact materialization nor
\* the validator.
C17_FailurePropagates ==
    (ex.done /\ Called("invoke") /\ ~ex.inv.success) =>
        /\ ex.result = ex.inv
        /\ ~Called("write_artifacts")
        /\ ~Called("validate_stage")
        /\ state = saved

\* a read-only backend timed out
C17_Witness ==
    /\ ex.done
    /\ Called("invoke")
    /\ ex.inv.type = "TIMEOUT"
    /\ ex.read_only_output
    /\ ex.result.type = "TIMEOUT"
    /\ ex.calls = <<"should_skip_stage", "invoke">>

----------------------------------------------------------------------------
(* Outstanding questions *)

\* QUESTIONS.md exists and ANSWERS.md does not
QuestionsOutstanding ==
    Artifact("QUESTIONS") \in artifacts /\ Artifact("ANSWERS") \notin artifacts

\* a step of the loop that handles a CLARIFICATION_NEEDED result
ClarificationStep ==
    /\ pc = "handle"
    /\ pc' # "handle"
    /\ result.type = "CLARIFICATION_NEEDED"

----------------------------------------------------------------------------
(* Persistence at the points where the loop stops or prompts *)

\* the loop has returned, or waits for the user's answer after a failure
FailureHandover ==
    pc \in {"paused", "returned", "preflight_prompt", "ceiling_prompt"}

\* C19: whenever the loop has stopped or is prompting the user after a
\* failure, the saved state equals the state in memory
C19_PersistedAtHandover ==
    FailureHandover => saved = state

----------------------------------------------------------------------------
(* The run loop started again from the saved state *)

\* the highest saved attempt from which the loop is started again
MaxRestartAttempt == 3

\* the process ended (the loop returned, or it crashed while the stage was
\* executing); load_state reads the saved state and run_workflow enters
\* _run_workflow_legacy with it
Restart ==
    /\ pc \in {"executing", "returned", "paused"}
    /\ saved.attempt <= MaxRestartAttempt
    /\ state' = saved
    /\ pc' = "loop"
    /\ result' = NoResult
    /\ pause_requested' = FALSE
    /\ fail_run' = 0
    /\ rb_call' = NoCall
    /\ ex' = NoExec
    /\ UNCHANGED <<saved, envVars, resolverVars, runVars, sideVars, logVars, now>>

NextRestart ==
    \/ Next
    \/ Restart

SpecRestart == InitLoop /\ [][NextRestart]_vars

\* a step that starts the loop again
RestartStep ==
    /\ pc \in {"executing", "returned", "paused"}
    /\ pc' = "loop"

\* C20: when the loop is started again from the reloaded state, the current
\* stage is executed from attempt 1
C20_RestartFromAttemptOne ==
    [][RestartStep => (state'.stage = saved.stage /\ state'.attempt = 1)]_vars

----------------------------------------------------------------------------
(* The TUI run loop: _run_workflow_with_tui. The main thread runs the app   *)
(* (and with it the key bindings and prompt callbacks); a daemon worker     *)
(* thread runs the stage loop. Stage results are success or a validation    *)
(* failure without rollback target.                                         *)

\* worker threads started in one process
MaxWorkers == 2

\* config.stages.skip of the TUI runs: PM, DEV, TEST, QA and REVIEW run
TuiSkip ==
    {"DESIGN", "PREFLIGHT", "MIGRATION", "CONTRACT", "BENCHMARK", "SECURITY", "DOCS"}

\* the worker thread of the current _run_workflow_with_tui call
Worker == Len(tui.workers)

WorkerAt(p) == Worker > 0 /\ tui.workers[Worker] = p

\* the fields of tui after the current worker moved to p
WorkerTo(p) == [tui EXCEPT !.workers[Worker] = p, !.answer = None]

\* the main thread restarts the TUI loop after app.run() returned with this
\* result, though the worker may not have finished
RestartsLoop_after_pause(res) == res \in {"new_task", "back_to_dev", "paused"}

\* results after which the main thread starts the TUI loop again
RestartsLoop(res) == res \in {"new_task", "back_to_dev"}

\* app.run() with a fresh app and a fresh worker thread
StartTui(t) ==
    [t EXCEPT !.main = "app_run", !.workers = Append(@, "loop"), !.app = NewApp,
              !.answer = None, !.success = FALSE]

InitTui ==
    /\ state \in {NewState("PM", {}), NewState("QA", {})}
    /\ saved = state
    /\ cfg_skip = TuiSkip
    /\ artifacts = {}
    /\ glob_skip = {}
    /\ rollback_md = <<>>
    /\ resolved_md = <<>>
    /\ now = 0
    /\ rb_call = NoCall
    /\ pc = "loop"
    /\ result = NoResult
    /\ pause_requested = FALSE
    /\ fail_run = 0
    /\ child = NoChild
    /\ runner = NoRun
    /\ ex = NoExec
    /\ r_current = "PM"
    /\ r_result = "unset"
    /\ tui = StartTui(NoTui)
    /\ prompt = NoPrompt
    /\ logs = NoLogs
    /\ be = NoBackendCall

tuiFrame ==
    <<cfg_skip, glob_skip, resolverVars, runVars, ex, logVars, now, rb_call, loopVars,
      prompt, logs, be>>

\* while state.stage != Stage.COMPLETE and not app._paused
WorkerLoopTop ==
    /\ WorkerAt("loop")
    /\ tui' = IF state.stage # "COMPLETE" /\ ~tui.app.paused
                THEN WorkerTo("executing")
                ELSE WorkerTo("after_loop")
    /\ UNCHANGED <<state, saved, artifacts, tuiFrame>>

\* execute_stage(state, tui_app=app) returns
WorkerExecutes(ok) ==
    /\ WorkerAt("executing")
    /\ tui' = [WorkerTo("handle") EXCEPT !.success = ok]
    /\ UNCHANGED <<state, saved, artifacts, tuiFrame>>

\* the loop body after execute_stage returned
WorkerHandle ==
    /\ WorkerAt("handle")
    /\ IF tui.app.paused
         THEN /\ tui' = [WorkerTo("after_loop") EXCEPT !.app.result = "paused"]
              /\ UNCHANGED <<state, saved>>
       ELSE IF ~tui.success
         THEN LET st1 == [state EXCEPT !.attempt = @ + 1, !.last_failure = "m1"] IN
              /\ state' = st1
              /\ IF st1.attempt > max_retries
                   THEN /\ tui' = [WorkerTo("failure_wait") EXCEPT
                                      !.app.prompt = "STAGE_FAILURE"]
                        /\ UNCHANGED saved
                   ELSE /\ tui' = WorkerTo("loop")
                        /\ saved' = st1
       ELSE IF state.stage = "PM" /\ Artifact("APPROVAL") \notin artifacts
         THEN /\ tui' = [WorkerTo("approval_wait") EXCEPT !.app.prompt = "PLAN_APPROVAL"]
              /\ UNCHANGED <<state, saved>>
       ELSE /\ state' = advance(state, cfg_skip, artifacts, glob_skip)
            /\ saved' = state'
            /\ tui' = WorkerTo("loop")
    /\ UNCHANGED <<artifacts, tuiFrame>>

\* the user chooses an option of the modal on screen; the callback runs on
\* the main thread. For the plan approval the callbacks write APPROVAL.md
\* ("yes") or reset the state to PM and save it ("no").
UserAnswers(choice) ==
    /\ tui.main = "app_run"
    /\ ~tui.app.exited
    /\ tui.app.prompt # "NONE"
    /\ tui.answer = None
    /\ tui' = [tui EXCEPT !.app.prompt = "NONE", !.answer = choice]
    /\ IF tui.app.prompt = "PLAN_APPROVAL" /\ choice = "yes"
         THEN /\ artifacts' = artifacts \cup {Artifact("APPROVAL")}
              /\ UNCHANGED <<state, saved>>
       ELSE IF tui.app.prompt = "PLAN_APPROVAL" /\ choice = "no"
         THEN /\ state' = [state EXCEPT !.stage = "PM", !.attempt = 1,
                                        !.last_failure = "Plan rejected"]
              /\ saved' = state'
              /\ UNCHANGED artifacts
       ELSE UNCHANGED <<state, saved, artifacts>>
    /\ UNCHANGED tuiFrame

\* the worker wakes up from failure_event.wait()
WorkerFailureChoice ==
    /\ WorkerAt("failure_wait")
    /\ tui.answer # None
    /\ IF tui.answer = "yes"
         THEN /\ state' = [state EXCEPT !.attempt = 1]
              /\ saved' = state'
              /\ tui' = WorkerTo("loop")
       ELSE IF tui.answer = "no"
         THEN /\ state' = [state EXCEPT !.stage = "DEV", !.attempt = 1,
                                        !.last_failure = "Feedback"]
              /\ saved' = state'
              /\ tui' = WorkerTo("loop")
       ELSE /\ saved' = state
            /\ tui' = [WorkerTo("after_loop") EXCEPT !.app.result = "paused"]
            /\ UNCHANGED state
    /\ UNCHANGED <<artifacts, tuiFrame>>

\* the worker sees approval_event set
WorkerApprovalChoice ==
    /\ WorkerAt("approval_wait")
    /\ tui.answer # None
    /\ IF tui.answer = "yes"
         THEN /\ state' = advance(state, cfg_skip, artifacts, glob_skip)
              /\ saved' = state'
              /\ tui' = WorkerTo("loop")
       ELSE IF tui.answer = "no"
         THEN /\ tui' = WorkerTo("loop")
              /\ UNCHANGED <<state, saved>>
       ELSE /\ tui' = [WorkerTo("after_loop") EXCEPT !.app.result = "paused"]
            /\ UNCHANGED <<state, saved>>
    /\ UNCHANGED <<artifacts, tuiFrame>>

\* after the while loop: the completion prompt at COMPLETE
WorkerAfterLoop ==
    /\ WorkerAt("after_loop")
    /\ tui' = IF state.stage = "COMPLETE"
                THEN [WorkerTo("completion_wait") EXCEPT !.app.prompt = "COMPLETION"]
                ELSE WorkerTo("finally")
    /\ UNCHANGED <<state, saved, artifacts, tuiFrame>>

\* the worker wakes up from completion_event.wait()
WorkerCompletionChoice ==
    /\ WorkerAt("completion_wait")
    /\ tui.answer # None
    /\ IF tui.answer = "yes"
         THEN /\ tui' = [WorkerTo("post_wait") EXCEPT !.app.prompt = "POST_COMPLETION"]
              /\ UNCHANGED <<state, saved>>
       ELSE IF tui.answer = "no"
         THEN /\ state' = [state EXCEPT !.stage = "DEV", !.attempt = 1,
                                        !.last_failure = "Manual review"]
              /\ saved' = state'
              /\ tui' = [WorkerTo("finally") EXCEPT !.app.result = "back_to_dev"]
       ELSE /\ tui' = [WorkerTo("finally") EXCEPT !.app.result = "paused"]
            /\ UNCHANGED <<state, saved>>
    /\ UNCHANGED <<artifacts, tuiFrame>>

\* the worker wakes up from post_event.wait()
WorkerPostChoice ==
    /\ WorkerAt("post_wait")
    /\ tui.answer # None
    /\ tui' = [WorkerTo("finally") EXCEPT
                  !.app.result = IF tui.answer = "yes" THEN "new_task" ELSE "done"]
    /\ UNCHANGED <<state, saved, artifacts, tuiFrame>>

\* finally: workflow_done.set(); app.call_from_thread(app.set_timer, 0.5, app.exit)
WorkerFinally ==
    /\ WorkerAt("finally")
    /\ tui' = [WorkerTo("done") EXCEPT !.app.exit_timer = TRUE]
    /\ UNCHANGED <<state, saved, artifacts, tuiFrame>>

\* the timer set by the worker fires: app.exit()
ExitTimer ==
    /\ tui.main = "app_run"
    /\ tui.app.exit_timer
    /\ ~tui.app.exited
    /\ tui' = [tui EXCEPT !.app.exited = TRUE]
    /\ UNCHANGED <<state, saved, artifacts, tuiFrame>>

\* action_quit_workflow with no prompt on screen (with one, the modal is
\* dismissed with "quit": UserAnswers)
ActionQuitWorkflow ==
    /\ tui.main = "app_run"
    /\ ~tui.app.exited
    /\ tui.app.prompt = "NONE"
    /\ tui' = [tui EXCEPT !.app.paused = TRUE, !.app.result = "paused",
                          !.app.exited = TRUE]
    /\ UNCHANGED <<state, saved, artifacts, tuiFrame>>

\* action_interrupt_feedback, action_skip_stage, action_back_stage and
\* action_manual_edit: ignored during a prompt, else raise the request flag
\* and _paused
ActionRequest(flag) ==
    /\ tui.main = "app_run"
    /\ ~tui.app.exited
    /\ tui.app.prompt = "NONE"
    /\ tui' = [tui EXCEPT !.app = [@ EXCEPT ![flag] = TRUE, !.paused = TRUE]]
    /\ UNCHANGED <<state, saved, artifacts, tuiFrame>>

\* app.run() returns on the main thread
AppRunReturns ==
    /\ tui.main = "app_run"
    /\ tui.app.exited
    /\ tui' = [tui EXCEPT !.main = "dispatch"]
    /\ UNCHANGED <<state, saved, artifacts, tuiFrame>>

\* result = app._workflow_result or "paused", and what the main thread does
\* with it: a new task or back to DEV start the TUI loop again, "paused"
\* goes to _handle_pause(state), anything else returns
MainDispatch ==
    /\ tui.main = "dispatch"
    /\ LET res == IF tui.app.result = None THEN "paused" ELSE tui.app.result IN
       IF RestartsLoop(res)
         THEN /\ Worker < MaxWorkers
              /\ tui' = StartTui(tui)
              /\ IF res = "new_task"
                   THEN /\ state' = NewState("PM", {})
                        /\ saved' = state'
                        /\ artifacts' = {}
                   ELSE UNCHANGED <<state, saved, artifacts>>
       ELSE IF res = "paused"
         THEN /\ tui' = [tui EXCEPT !.main = "handle_pause"]
              /\ UNCHANGED <<state, saved, artifacts>>
       ELSE /\ tui' = [tui EXCEPT !.main = "returned"]
            /\ UNCHANGED <<state, saved, artifacts>>
    /\ UNCHANGED tuiFrame

\* _handle_pause(state) on the main thread: save_state(state), then return
MainHandlePause ==
    /\ tui.main = "handle_pause"
    /\ saved' = state
    /\ tui' = [tui EXCEPT !.main = "returned"]
    /\ UNCHANGED <<state, artifacts, tuiFrame>>

NextTui ==
    \/ WorkerLoopTop
    \/ \E ok \in BOOLEAN : WorkerExecutes(ok)
    \/ WorkerHandle
    \/ \E c \in {"yes", "no", "quit"} : UserAnswers(c)
    \/ WorkerFailureChoice
    \/ WorkerApprovalChoice
    \/ WorkerAfterLoop
    \/ WorkerCompletionChoice
    \/ WorkerPostChoice
    \/ WorkerFinally
    \/ ExitTimer
    \/ ActionQuitWorkflow
    \/ \E f \in {"interrupt", "skip", "back", "manual_edit"} : ActionRequest(f)
    \/ AppRunReturns
    \/ MainDispatch
    \/ MainHandlePause

SpecTui == InitTui /\ [][NextTui]_vars

\* the worker threads that are inside execute_stage
Executing == {w \in 1 .. Len(tui.workers) : tui.workers[w] = "executing"}

\* the worker threads that are executing a stage or handling its result
InStage == {w \in 1 .. Len(tui.workers) : tui.workers[w] \in {"executing", "handle"}}

\* C21: at most one stage execution is in progress: a worker enters a stage
\* execution only when no other worker is executing a stage or handling its
\* result, also after a quit and after the loop was started again
C21_OneStageAtATime ==
    /\ Cardinality(Executing) <= 1
    /\ Executing # {} => InStage = Executing

\* the TUI loop was started again and its worker executes a stage
C21_Witness ==
    /\ Worker = 2
    /\ Executing = {2}
    /\ tui.workers[1] = "done"

\* C28: while the main thread is in _handle_pause(state), which reads and
\* saves the state, no worker is executing a stage or handling its result
C28_StateConfinedToWorker ==
    tui.main = "handle_pause" => InStage = {}

\* the request flags of the app that are raised
RequestFlags ==
    {f \in {"interrupt", "skip", "back", "manual_edit"} : tui.app[f]}

\* C29: at most one of the request flags is raised
C29_SingleRequest ==
    Cardinality(RequestFlags) <= 1

----------------------------------------------------------------------------
(* The prompt race: WorkflowTUIApp.prompt_async. The local waiter is the    *)
(* future the modal's callback resolves, the remote waiter the task that    *)
(* polls the hub's action handler.                                          *)

\* the run loop, the resolver, the supervisor and the executor at rest
IdleCore ==
    /\ state = NewState("PM", {})
    /\ saved = state
    /\ cfg_skip = {}
    /\ artifacts = {}
    /\ glob_skip = {}
    /\ rollback_md = <<>>
    /\ resolved_md = <<>>
    /\ now = 0
    /\ rb_call = NoCall
    /\ pc = "loop"
    /\ result = NoResult
    /\ pause_requested = FALSE
    /\ fail_run = 0
    /\ child = NoChild
    /\ runner = NoRun
    /\ ex = NoExec
    /\ r_current = "PM"
    /\ r_result = "unset"

PromptTypes == {"PLAN_APPROVAL", "COMPLETION", "STAGE_FAILURE"}

\* what the user can choose in the modal
LocalChoices == {"yes", "no", "quit"}

\* what the hub can answer
RemoteChoices == {"yes", "no", "skip"}

\* the result of a waiter that has completed, else None
Completed(w) == IF w \in {"pending", "cancelled"} THEN None ELSE w

\* prompt_async up to its await: show_prompt put the modal on screen and
\* both waiters are pending; `hub` is the response the handler holds
InitPrompt ==
    /\ IdleCore
    /\ tui = NoTui
    /\ logs = NoLogs
    /\ be = NoBackendCall
    /\ \E pt \in PromptTypes :
         prompt = [pc |-> "waiting", ptype |-> pt, modal |-> "shown",
                   local |-> "pending", remote |-> "pending", first |-> None,
                   result |-> None, winner |-> None, returns |-> 0, hub |-> None]

promptFrame ==
    <<state, saved, envVars, resolverVars, runVars, ex, logVars, now, rb_call, loopVars,
      tui, logs, be>>

\* the hub stores a response for some prompt type
HubResponds(pt, v) ==
    /\ prompt.pc = "waiting"
    /\ prompt.hub = None
    /\ prompt.remote = "pending"
    /\ prompt' = [prompt EXCEPT !.hub = <<pt, v>>]
    /\ UNCHANGED promptFrame

\* _wait_for_remote_response finds a response for this prompt type,
\* consumes it and returns its result
RemotePolls ==
    /\ prompt.pc = "waiting"
    /\ prompt.remote = "pending"
    /\ prompt.hub # None
    /\ prompt.hub[1] = prompt.ptype
    /\ prompt' = [prompt EXCEPT !.remote = prompt.hub[2], !.hub = None,
                                !.first = IF @ = None THEN "remote" ELSE @]
    /\ UNCHANGED promptFrame

\* the user picks an option: the modal is dismissed with it, _handle clears
\* the prompt fields and calls the callback, which resolves the future
\* unless it is done
UserChooses(v) ==
    /\ prompt.pc = "waiting"
    /\ prompt.modal = "shown"
    /\ prompt' = [prompt EXCEPT
                    !.modal = "chosen",
                    !.local = IF @ = "pending" THEN v ELSE @,
                    !.first = IF @ = None /\ prompt.local = "pending"
                                THEN "local" ELSE @]
    /\ UNCHANGED promptFrame

\* asyncio.wait(FIRST_COMPLETED) returns the waiters that are done by the
\* time the coroutine resumes; the pending one is cancelled; the result is
\* done.pop().result(), any element of the set `done`; when the local waiter
\* was pending hide_prompt dismisses the modal with None, which _handle does
\* not pass to the callback
AwaitReturns(w) ==
    /\ prompt.pc = "waiting"
    /\ Completed(prompt[w]) # None
    /\ prompt' = [prompt EXCEPT
                    !.pc = "returned",
                    !.result = prompt[w],
                    !.winner = w,
                    !.returns = @ + 1,
                    !.local = IF @ = "pending" THEN "cancelled" ELSE @,
                    !.remote = IF @ = "pending" THEN "cancelled" ELSE @,
                    !.modal = IF prompt.local = "pending" THEN "hidden" ELSE @]
    /\ UNCHANGED promptFrame

NextPrompt ==
    \/ \E pt \in PromptTypes, v \in RemoteChoices : HubResponds(pt, v)
    \/ RemotePolls
    \/ \E v \in LocalChoices : UserChooses(v)
    \/ \E w \in {"local", "remote"} : AwaitReturns(w)

SpecPrompt == InitPrompt /\ [][NextPrompt]_vars

\* C22: prompt_async returns once, with the result of the waiter that
\* completed first; the other waiter is cancelled, and when the remote
\* response wins the modal is dismissed by hide_prompt and the local waiter
\* holds no result
C22_FirstWaiterWins ==
    /\ prompt.returns <= 1
    /\ prompt.pc = "returned" =>
        /\ prompt.winner = prompt.first
        /\ prompt.result = prompt[prompt.first]
        /\ prompt.winner = "remote" =>
              (prompt.local = "cancelled" /\ prompt.modal = "hidden")
        /\ prompt.winner = "local" => prompt.remote = "cancelled"

----------------------------------------------------------------------------
(* COMPLETE *)

\* C23: once the stage is COMPLETE no step of the run loop moves it to
\* another stage
C23_CompleteTerminal ==
    [][state.stage = "COMPLETE" => state'.stage = "COMPLETE"]_vars

----------------------------------------------------------------------------
(* Per-attempt logs *)

\* C24: a stage execution keeps what every log file held: each file still
\* exists and its old content is a prefix of the new
C24_LogsAppendOnly ==
    [][\A k \in DOMAIN logs :
            k \in DOMAIN logs' /\ IsPrefix(logs[k], logs'[k])]_vars

----------------------------------------------------------------------------
(* The Claude backend: one call of invoke *)

\* what one line of the child's merged stdout/stderr can be:
\*   text    not JSON, without the words looked for
\*   marker  not JSON, containing "max turns" or "reached max"
\*   result  a JSON object with "type": "result"
\*   object  a JSON object of another type
\*   scalar  valid JSON that is not an object (a number, null, a string)
LineKinds == {"text", "marker", "result", "object", "scalar"}

MaxOutLines == 2

OutLines == UNION {[1..n -> LineKinds] : n \in 0..MaxOutLines}

\* how the read loop is left: the child exited, a pause was requested, the
\* timeout passed, or select/readline raised OSError or ValueError
LoopEnds == {"exited", "paused", "timeout", "closed"}

\* process.communicate(timeout=10) after the loop
CommunicateOutcomes == {"ok", "os_error", "timeout_expired"}

ExitCodes == {0, 1}

LaunchError == "Connection failed"

AttributeErrorText == "'int' object has no attribute 'get'"

DebugLogError == "OSError"

TimeoutExpiredText == "timed out after 10 seconds"

BackendInputs ==
    [debug_fails : BOOLEAN, launch : {"ok", "raises"}, lines : OutLines,
     how : LoopEnds, comm : CommunicateOutcomes,
     chunk : LineKinds \cup {"none"}, returncode : ExitCodes]

\* json.loads(line.strip()) followed by data.get(...): the text kinds raise
\* JSONDecodeError, a scalar decodes and has no .get
json_loads_get(kind) ==
    CASE kind \in {"text", "marker"} -> "JSONDecodeError"
      [] kind = "scalar" -> "AttributeError"
      [] OTHER -> kind

\* _process_stream_line over the lines read: it catches JSONDecodeError,
\* KeyError and TypeError only
stream_raises(lines) ==
    \E i \in DOMAIN lines : json_loads_get(lines[i]) = "AttributeError"

\* "max turns" in full_output.lower() or "reached max" in full_output.lower()
has_max_turns_text(out) == \E i \in DOMAIN out : out[i] = "marker"

\* the loop that looks for the result line: stops at the first result
\* object, passes over lines that do not decode, raises on a scalar
RECURSIVE result_scan(_)
result_scan(out) ==
    IF out = <<>> THEN "none"
    ELSE LET d == json_loads_get(Head(out)) IN
         CASE d = "result" -> "found"
           [] d = "AttributeError" -> "AttributeError"
           [] OTHER -> result_scan(Tail(out))

BackendResult(type, message) == MkResult(type, message, None, FALSE)

Returned(r) == [pc |-> "returned", result |-> r, raised |-> None]

Raised(e) == [pc |-> "raised", result |-> NoResult, raised |-> e]

\* the lines and the remaining chunk that make up full_output
output_lines(inp) ==
    IF inp.comm = "ok" /\ inp.chunk # "none"
    THEN Append(inp.lines, inp.chunk) ELSE inp.lines

ClaudeBackend_invoke(inp) ==
    IF inp.debug_fails THEN Raised(DebugLogError)
    ELSE IF inp.launch = "raises"
    THEN Returned(BackendResult("ERROR",
                    <<"Claude invocation error: ", LaunchError>>))
    ELSE IF stream_raises(inp.lines)
    THEN Returned(BackendResult("ERROR",
                    <<"Claude invocation error: ", AttributeErrorText>>))
    ELSE IF inp.how = "paused"
    THEN Returned(BackendResult("PAUSED", <<"Paused by user request">>))
    ELSE IF inp.how = "timeout" \/ inp.comm = "timeout_expired"
    THEN Returned(BackendResult("TIMEOUT", <<"Timed out">>))
    ELSE LET out == output_lines(inp)
             scan == result_scan(out)
         IN  IF has_max_turns_text(out)
             THEN Returned(BackendResult("MAX_TURNS", <<"Max turns reached">>))
             ELSE IF scan = "AttributeError"
             THEN Returned(BackendResult("ERROR",
                    <<"Claude invocation error: ", AttributeErrorText>>))
             ELSE IF inp.returncode = 0
             THEN Returned(BackendResult("SUCCESS",
                    IF scan = "found" THEN <<"result text">>
                    ELSE <<"Stage completed">>))
             ELSE Returned(BackendResult("ERROR",
                    <<"Claude failed (exit ", ToString(inp.returncode), ")">>))

InitBackend ==
    /\ IdleCore
    /\ tui = NoTui
    /\ prompt = NoPrompt
    /\ logs = NoLogs
    /\ \E inp \in BackendInputs :
         /\ inp.how \in {"paused", "timeout"} => inp.comm = "ok"
         /\ inp.comm # "ok" => inp.chunk = "none"
         /\ be = [pc |-> "call", inp |-> inp, result |-> NoResult,
                  raised |-> None]

backendFrame ==
    <<state, saved, envVars, resolverVars, runVars, ex, logVars, now, rb_call, loopVars,
      tui, prompt, logs>>

Invoke ==
    /\ be.pc = "call"
    /\ LET r == ClaudeBackend_invoke(be.inp) IN
         be' = [pc |-> r.pc, inp |-> be.inp, result |-> r.result,
                raised |-> r.raised]
    /\ UNCHANGED backendFrame

NextBackend == Invoke

SpecBackend == InitBackend /\ [][NextBackend]_vars

\* the child ran to its exit and its remaining output was collected
CompletedRun(inp) ==
    /\ ~inp.debug_fails
    /\ inp.launch = "ok"
    /\ inp.how = "exited"
    /\ inp.comm = "ok"

NamesExitCode(message, code) ==
    \E i \in DOMAIN message : message[i] = ToString(code)

\* C25: a completed run returns MAX_TURNS (no success) exactly when the
\* output holds the max-turns text, whatever the exit code; otherwise exit
\* code 0 gives SUCCESS and any other exit code gives ERROR naming the code
C25_MaxTurnsOrExitCode ==
    (be.pc # "call" /\ CompletedRun(be.inp)) =>
        /\ be.pc = "returned"
        /\ be.result.type = "MAX_TURNS" <=> has_max_turns_text(output_lines(be.inp))
        /\ be.result.type = "MAX_TURNS" => ~be.result.success
        /\ ~has_max_turns_text(output_lines(be.inp)) =>
             IF be.inp.returncode = 0
             THEN be.result.type = "SUCCESS"
             ELSE /\ be.result.type = "ERROR"
                  /\ NamesExitCode(be.result.message, be.inp.returncode)

\* the exception, if any, raised while the child is launched, its output
\* streamed and its remaining output collected
RaisedDuringCall(inp) ==
    IF inp.launch = "raises" THEN LaunchError
    ELSE IF stream_raises(inp.lines) THEN AttributeErrorText
    ELSE IF inp.how \in {"exited", "closed"} /\ inp.comm = "timeout_expired"
    THEN TimeoutExpiredText
    ELSE None

ContainsText(message, text) ==
    \E i \in DOMAIN message : message[i] = text

\* C26: invoke never raises, and an exception raised during launch or
\* streaming comes back as an ERROR result without success whose message
\* contains the exception's text
C26_InvokeNeverRaises ==
    be.pc # "call" =>
        /\ be.pc = "returned"
        /\ RaisedDuringCall(be.inp) # None =>
              /\ be.result.type = "ERROR"
              /\ ~be.result.success
              /\ ContainsText(be.result.message, RaisedDuringCall(be.inp))

----------------------------------------------------------------------------
(* Choosing a backend *)

BACKEND_REGISTRY == {"claude", "codex"}

DEFAULT_FALLBACKS == [n \in {"codex", "gemini"} |-> "claude"]

\* is_backend_available's table of CLI commands (each backend's command has
\* the backend's name)
cli_commands == {"claude", "codex", "gemini"}

BackendNames == {"claude", "codex", "gemini", "CODEX", "other"}

lower(name) == IF name = "CODEX" THEN "codex" ELSE name

\* the fallbacks argument: None for the default, or a mapping of the caller
FallbackArgs ==
    {<<>>,
     [n \in {"codex"} |-> "gemini"],
     [n \in {"claude"} |-> "codex"],
     [n \in {"gemini"} |-> "other"]}

\* installed: the commands shutil.which finds
is_backend_available(name, installed) ==
    lower(name) \in cli_commands /\ lower(name) \in installed

get_backend(name) ==
    IF lower(name) \in BACKEND_REGISTRY
    THEN [pc |-> "returned", backend |-> lower(name), raised |-> None]
    ELSE [pc |-> "raised", backend |-> None, raised |-> "ValueError"]

dict_get(d, k) == IF k \in DOMAIN d THEN d[k] ELSE None

get_backend_with_fallback(name, fallbacks_arg, installed) ==
    LET fallbacks == IF fallbacks_arg = <<>> THEN DEFAULT_FALLBACKS
                     ELSE fallbacks_arg
        fallback_name == dict_get(fallbacks, lower(name))
    IN  IF is_backend_available(name, installed) THEN get_backend(name)
        ELSE IF fallback_name # None
                /\ is_backend_available(fallback_name, installed)
        THEN get_backend(fallback_name)
        ELSE IF lower(name) # "claude"
                /\ is_backend_available("claude", installed)
        THEN get_backend("claude")
        ELSE [pc |-> "raised", backend |-> None, raised |-> "ValueError"]

InitFallback ==
    /\ IdleCore
    /\ tui = NoTui
    /\ prompt = NoPrompt
    /\ logs = NoLogs
    /\ \E name \in BackendNames, f \in FallbackArgs,
          installed \in SUBSET cli_commands :
         be = [pc |-> "select", name |-> name, fallbacks |-> f,
               installed |-> installed, backend |-> None, raised |-> None]

SelectBackend ==
    /\ be.pc = "select"
    /\ LET r == get_backend_with_fallback(be.name, be.fallbacks, be.installed)
       IN  be' = [be EXCEPT !.pc = r.pc, !.backend = r.backend,
                            !.raised = r.raised]
    /\ UNCHANGED backendFrame

NextFallback == SelectBackend

SpecFallback == InitFallback /\ [][NextFallback]_vars

\* the fallback configured for the name, under the mapping in force
ConfiguredFallback(name, fallbacks_arg) ==
    dict_get(IF fallbacks_arg = <<>> THEN DEFAULT_FALLBACKS ELSE fallbacks_arg,
             lower(name))

\* C27: the named backend when its CLI is available, otherwise the
\* configured fallback when that one is available, otherwise claude when
\* available; ValueError only when none of them is available; a returned
\* backend is always one whose CLI is available
C27_FallbackChain ==
    be.pc # "select" =>
        LET fb == ConfiguredFallback(be.name, be.fallbacks)
            named == is_backend_available(be.name, be.installed)
            fback == fb # None /\ is_backend_available(fb, be.installed)
            last  == is_backend_available("claude", be.installed)
        IN  /\ named => (be.pc = "returned" /\ be.backend = lower(be.name))
            /\ (~named /\ fback) =>
                   (be.pc = "returned" /\ be.backend = lower(fb))
            /\ (~named /\ ~fback /\ last) =>
                   (be.pc = "returned" /\ be.backend = "claude")
            /\ be.pc = "raised" =>
                   (be.raised = "ValueError" /\ ~named /\ ~fback /\ ~last)
            /\ be.pc = "returned" =>
                   is_backend_available(be.backend, be.installed)

----------------------------------------------------------------------------
(* The resolver as a first fit, checked under SpecResolver *)

\* a skip rule applies to stage s: the config skip list, the task-type
\* exclusion, fast-track with s already passed, a stage-plan "skip", or, for
\* a conditional stage, its skip marker or (the plan not saying "run") an
\* unmet run condition
SkipRuleApplies(s) ==
    \/ s \in cfg_skip
    \/ should_skip_for_task_type(s, state.task_type)
    \/ should_fast_track_skip(state, s)
    \/ PlanAction(state, s) = "skip"
    \/ /\ s \in DOMAIN CONDITIONAL_STAGES
       /\ \/ CONDITIONAL_STAGES[s] \in artifacts
          \/ PlanAction(state, s) # "run" /\ s \in glob_skip

\* the stages after r_current that no skip rule matches
WouldRun ==
    {s \in Stage : StageIndex(s) > StageIndex(r_current) /\ ~SkipRuleApplies(s)}

\* C30: get_next_stage returns the first stage after current that no skip
\* rule matches (None when there is none): the stage returned is not matched
\* by a skip rule and no stage that would run lies before it
C30_FirstUnskipped ==
    Resolved =>
        IF WouldRun = {} THEN r_result = None
        ELSE /\ r_result \in WouldRun
             /\ \A s \in WouldRun : StageIndex(r_result) <= StageIndex(s)

\* a call that jumped over a conditional stage whose run condition is unmet
\* and returned a later stage
C30_Witness ==
    /\ Resolved /\ r_result # None
    /\ \E s \in glob_skip :
          /\ StageIndex(r_current) < StageIndex(s)
          /\ StageIndex(s) < StageIndex(r_result)
          /\ s \notin cfg_skip
          /\ PlanAction(state, s) = None

----------------------------------------------------------------------------
(* Conditional stages, checked under SpecResolver *)

\* the candidate is a conditional stage that none of the config, task-type,
\* fast-track and stage-plan "skip" rules matches
ConditionalCandidate ==
    /\ r_current # LastStage
    /\ Candidate \in DOMAIN CONDITIONAL_STAGES
    /\ Candidate \notin cfg_skip
    /\ ~should_skip_for_task_type(Candidate, state.task_type)
    /\ ~should_fast_track_skip(state, Candidate)
    /\ PlanAction(state, Candidate) # "skip"

\* C31: for such a candidate, a skip marker always skips the stage, also
\* when the stage plan says "run"; without a marker a plan "run" returns the
\* stage whatever the validator's skip condition says; otherwise the stage
\* is skipped exactly when the validator's skip condition holds
C31_MarkerThenPlanThenCondition ==
    (Resolved /\ ConditionalCandidate) =>
        LET marker == CONDITIONAL_STAGES[Candidate] \in artifacts
            run == PlanAction(state, Candidate) = "run"
        IN  /\ marker => r_result # Candidate
            /\ (~marker /\ run) => r_result = Candidate
            /\ (~marker /\ ~run) =>
                  ((r_result # Candidate) <=> (Candidate \in glob_skip))

\* a resolved call whose conditional candidate has both a skip marker and a
\* stage-plan "run"
C31_Witness ==
    /\ Resolved /\ ConditionalCandidate
    /\ CONDITIONAL_STAGES[Candidate] \in artifacts
    /\ PlanAction(state, Candidate) = "run"

----------------------------------------------------------------------------
(* The cases of execute_stage without a backend, checked under SpecExecutor *)

\* C32: the backend is invoked only when the stage is not COMPLETE, the
\* validator's skip condition is false, no clarification is pending and the
\* stage is not PREFLIGHT; the other cases, taken in this order, return
\* without an invocation: SUCCESS for COMPLETE, SKIPPED with the skip marker
\* written, CLARIFICATION_NEEDED, and for PREFLIGHT the validation result as
\* SUCCESS or PREFLIGHT_FAILED
C32_NoBackendCases ==
    ex.done =>
        LET s == state.stage
            skip == s \in glob_skip
            pending == QuestionsOutstanding
        IN  /\ Called("invoke") =>
                  (s # "COMPLETE" /\ ~skip /\ ~pending /\ s # "PREFLIGHT")
            /\ s = "COMPLETE" => ex.result.type = "SUCCESS"
            /\ (s # "COMPLETE" /\ skip) =>
                  (ex.result.type = "SKIPPED" /\ SkipArtifact(s) \in artifacts)
            /\ (s # "COMPLETE" /\ ~skip /\ pending) =>
                  ex.result.type = "CLARIFICATION_NEEDED"
            /\ (s = "PREFLIGHT" /\ ~skip /\ ~pending) =>
                  /\ Called("validate_stage")
                  /\ ex.result.type =
                        (IF ex.val.success THEN "SUCCESS" ELSE "PREFLIGHT_FAILED")

\* an executed stage whose skip condition holds while questions are
\* outstanding: it is skipped
C32_Witness ==
    /\ ex.done
    /\ state.stage \in glob_skip /\ state.stage # "COMPLETE"
    /\ QuestionsOutstanding
    /\ ex.result.type = "SKIPPED"

----------------------------------------------------------------------------
(* The attempt counter in the run loop *)

\* the loop is about to handle a failure that it counts: not a pause, not a
\* pre-flight failure, not a wait for approval or clarification, and not a
\* rollback that handle_rollback accepts
CountedFailure ==
    /\ pc = "handle"
    /\ ~(pause_requested \/ result.type = "PAUSED")
    /\ ~result.success
    /\ result.type # "PREFLIGHT_FAILED"
    /\ ~(state.awaiting_approval \/ state.clarification_required)
    /\ ~handle_rollback(state, saved, rollback_md, result, now).ret

\* C33: the attempt counter goes up by exactly 1 when a counted failure is
\* handled and is set to 1 on a stage change or a retry chosen at the
\* ceiling, and changes in no other step; a pre-flight retry and a pause
\* leave stage and attempt alone, and a pause clears the flag and saves
C33_AttemptCounter ==
    [][ /\ state'.attempt # state.attempt =>
              \/ state'.attempt = state.attempt + 1 /\ CountedFailure
              \/ /\ state'.attempt = 1
                 /\ state'.stage # state.stage \/ pc = "ceiling_prompt"
        /\ (CountedFailure /\ pc' # pc) => state'.attempt = state.attempt + 1
        /\ state'.stage # state.stage => state'.attempt = 1
        /\ (pc = "preflight_prompt" \/ pc' = "paused") =>
              (state'.stage = state.stage /\ state'.attempt = state.attempt)
        /\ (pc' = "paused" /\ pc # "paused") =>
              (~pause_requested' /\ saved' = state')
      ]_vars

----------------------------------------------------------------------------
(* The order of the checks in one poll iteration, checked under SpecRunner *)

\* the runner takes a step
RunnerStep == runner' # runner

\* C34: in an iteration the output is drained, then the exit seen by poll
\* ends the loop with COMPLETED and the exit code whatever the pause flag and
\* the clock say, then a pause request ends it before the timeout is looked
\* at, then the timeout, and on_idle runs only in an iteration that goes on
\* to sleep
C34_CheckOrder ==
    [][RunnerStep =>
        /\ (runner.pc = "read" /\ runner'.pc # "raised") =>
              runner'.pc = (IF runner.retcode # Nothing THEN "capture"
                            ELSE "pause_check")
        /\ runner.pc = "capture" =>
              /\ runner'.pc = "returned"
              /\ runner'.result.outcome = "COMPLETED"
              /\ runner'.result.exit_code = runner.retcode
        /\ runner'.pc = "returned" /\ runner'.result.outcome = "COMPLETED" =>
              runner.pc = "capture"
        /\ (runner.pc = "pause_check" /\ pause_requested) =>
              runner'.pc = "term_wait"
        /\ runner.pc = "term_wait" =>
              (runner'.pc = "returned" /\ runner'.result.outcome = "PAUSED")
        /\ (runner'.pc = "returned" /\ runner'.result.outcome = "TIMEOUT") =>
              (runner.pc = "timeout_check" /\ runner.elapsed > RunTimeout)
        /\ runner.pc = "timeout_check" /\ runner.elapsed > RunTimeout =>
              (runner'.pc = "returned" /\ runner'.result.outcome = "TIMEOUT")
        /\ runner.pc = "idle" => runner'.pc \in {"sleep", "raised"}
        /\ runner'.pc = "idle" =>
              (runner.pc = "timeout_check" /\ runner.retcode = Nothing)
    ]_vars

\* a run that returned COMPLETED with exit code 0 although a pause is
\* requested and the timeout has passed
C34_Witness ==
    /\ runner.pc = "returned"
    /\ runner.result.outcome = "COMPLETED"
    /\ runner.result.exit_code = Some(0)
    /\ pause_requested
    /\ runner.elapsed > RunTimeout

----------------------------------------------------------------------------
(* Output forwarding, checked under SpecRunner *)

\* C35: the output of the RunResult is the concatenation of the lines that
\* were passed to on_output, each once and in the order the child wrote
\* them, the output collected after the child's exit included
C35_OutputForwarded ==
    runner.pc = "returned" =>
        /\ runner.result.output = runner.forwarded
        /\ \A i \in 1 .. Len(runner.forwarded) : runner.forwarded[i] = i

----------------------------------------------------------------------------
(* Key bindings of the TUI app while a text input or a prompt is shown *)

\* key presses in one run
MaxPresses == 3

AppActions ==
    {"quit_workflow", "interrupt_feedback", "skip_stage", "back_stage",
     "manual_edit", "toggle_verbose"}

\* the flag each request action sets
RequestFlag ==
    [a \in {"interrupt_feedback", "skip_stage", "back_stage", "manual_edit"} |->
        CASE a = "interrupt_feedback" -> "interrupt"
          [] a = "skip_stage" -> "skip"
          [] a = "back_stage" -> "back"
          [] OTHER -> "manual_edit"]

\* the fields of the app the actions read and write: the control flags,
\* verbose, _prompt_callback / _active_prompt_screen, _input_callback /
\* _active_input_screen, the pending _show and _hide updates of the prompt
\* and of the text input, _workflow_result, exit() called, and the values
\* the prompt callback received
KeyApp ==
    [paused |-> FALSE, interrupt |-> FALSE, skip |-> FALSE, back |-> FALSE,
     manual_edit |-> FALSE, verbose |-> FALSE,
     prompt_callback |-> FALSE, prompt_screen |-> FALSE,
     show_pending |-> FALSE, hide_pending |-> FALSE,
     input_callback |-> FALSE, input_screen |-> FALSE, input_pending |-> FALSE,
     result |-> None, exited |-> FALSE, delivered |-> <<>>]

_text_input_active(app) == app.input_callback \/ app.input_screen

\* check_action_always: every action always allowed
check_action_always(app, a) == TRUE

\* check_action_<a>()
check_action(app, a) == ~_text_input_active(app)

\* the guard of the four request actions and the first two branches of quit
PromptActive(app) == app.prompt_screen \/ app.prompt_callback

\* _handle(result) of show_prompt: the callback gets a non-empty result
prompt_handle(app, v) ==
    [app EXCEPT !.prompt_screen = FALSE, !.prompt_callback = FALSE,
                !.delivered = IF v # None THEN Append(@, v) ELSE @]

action_quit_workflow(app) ==
    IF app.prompt_screen THEN prompt_handle(app, "quit")
    ELSE IF app.prompt_callback
        THEN [app EXCEPT !.prompt_callback = FALSE, !.hide_pending = TRUE,
                         !.delivered = Append(@, "quit")]
    ELSE [app EXCEPT !.paused = TRUE, !.result = "paused", !.exited = TRUE]

action_request(app, a) ==
    IF PromptActive(app) THEN app
    ELSE [app EXCEPT ![RequestFlag[a]] = TRUE, !.paused = TRUE]

action_toggle_verbose(app) == [app EXCEPT !.verbose = ~@]

run_action(app, a) ==
    CASE a = "quit_workflow" -> action_quit_workflow(app)
      [] a = "toggle_verbose" -> action_toggle_verbose(app)
      [] OTHER -> action_request(app, a)

InitKeys ==
    /\ IdleCore
    /\ prompt = NoPrompt
    /\ logs = NoLogs
    /\ be = NoBackendCall
    /\ tui = [main |-> "keys", app |-> KeyApp, presses |-> 0, last |-> None,
              allowed |-> FALSE]

keysFrame ==
    <<state, saved, envVars, resolverVars, runVars, ex, logVars, now, rb_call, loopVars,
      prompt, logs, be>>

\* show_prompt called by the workflow: the callback is stored, _show is
\* handed to the UI thread
ShowPrompt ==
    /\ tui.main = "keys" /\ ~tui.app.exited
    /\ ~tui.app.prompt_callback /\ ~tui.app.show_pending
    /\ Len(tui.app.delivered) < MaxPresses
    /\ tui' = [tui EXCEPT !.app.prompt_callback = TRUE, !.app.show_pending = TRUE]
    /\ UNCHANGED keysFrame

\* _show runs on the UI thread: the modal is pushed
PromptShown ==
    /\ tui.main = "keys" /\ tui.app.show_pending
    /\ tui' = [tui EXCEPT !.app.show_pending = FALSE, !.app.prompt_screen = TRUE]
    /\ UNCHANGED keysFrame

\* _hide of hide_prompt runs on the UI thread
PromptHidden ==
    /\ tui.main = "keys" /\ tui.app.hide_pending
    /\ tui' = [tui EXCEPT !.app =
                  IF tui.app.prompt_screen
                  THEN [prompt_handle(tui.app, None) EXCEPT !.hide_pending = FALSE]
                  ELSE [tui.app EXCEPT !.hide_pending = FALSE]]
    /\ UNCHANGED keysFrame

\* the user picks an option of the modal
OptionChosen(v) ==
    /\ tui.main = "keys" /\ tui.app.prompt_screen
    /\ Len(tui.app.delivered) < MaxPresses
    /\ tui' = [tui EXCEPT !.app = prompt_handle(tui.app, v)]
    /\ UNCHANGED keysFrame

\* show_text_input called by the workflow
ShowTextInput ==
    /\ tui.main = "keys" /\ ~tui.app.exited
    /\ ~_text_input_active(tui.app) /\ ~tui.app.input_pending
    /\ tui' = [tui EXCEPT !.app.input_callback = TRUE, !.app.input_pending = TRUE]
    /\ UNCHANGED keysFrame

\* _show of the text input runs on the UI thread
TextInputShown ==
    /\ tui.main = "keys" /\ tui.app.input_pending
    /\ tui' = [tui EXCEPT !.app.input_pending = FALSE, !.app.input_screen = TRUE]
    /\ UNCHANGED keysFrame

\* the user submits or cancels the text input
TextInputDone ==
    /\ tui.main = "keys" /\ tui.app.input_screen
    /\ tui' = [tui EXCEPT !.app.input_screen = FALSE, !.app.input_callback = FALSE]
    /\ UNCHANGED keysFrame

\* a bound key is pressed: the action runs when its check allows it
Press(a) ==
    /\ tui.main = "keys" /\ ~tui.app.exited
    /\ tui.presses < MaxPresses
    /\ tui' = [tui EXCEPT
            !.presses = @ + 1, !.last = a,
            !.allowed = check_action(tui.app, a),
            !.app = IF check_action(tui.app, a) THEN run_action(tui.app, a) ELSE @]
    /\ UNCHANGED keysFrame

NextKeys ==
    \/ ShowPrompt
    \/ PromptShown
    \/ PromptHidden
    \/ \E v \in {"yes", "no"} : OptionChosen(v)
    \/ ShowTextInput
    \/ TextInputShown
    \/ TextInputDone
    \/ \E a \in AppActions : Press(a)

SpecKeys == InitKeys /\ [][NextKeys]_vars

ControlFlags(app) ==
    <<app.paused, app.interrupt, app.skip, app.back, app.manual_edit>>

\* C36: a key pressed while a text input is active runs none of the six
\* actions; while a choice prompt is active the four request actions change
\* no control flag, and quit hands "quit" to the prompt's callback and
\* leaves _paused alone
C36_KeysDuringInputAndPrompt ==
    [][tui'.presses = tui.presses + 1 =>
        /\ _text_input_active(tui.app) => tui'.app = tui.app
        /\ (PromptActive(tui.app) /\ tui'.last \in DOMAIN RequestFlag) =>
              ControlFlags(tui'.app) = ControlFlags(tui.app)
        /\ (PromptActive(tui.app) /\ ~_text_input_active(tui.app)
                /\ tui'.last = "quit_workflow") =>
              /\ tui'.app.delivered = Append(tui.app.delivered, "quit")
              /\ ~PromptActive(tui'.app)
              /\ tui'.app.paused = tui.app.paused
              /\ ~tui'.app.exited
    ]_vars

\* quit was pressed while a text input was active and was refused, and an
\* earlier quit had resolved a prompt
C36_Witness ==
    /\ tui.last = "quit_workflow" /\ ~tui.allowed
    /\ _text_input_active(tui.app)
    /\ tui.app.delivered = <<"quit">>
    /\ ~tui.app.paused

----------------------------------------------------------------------------
(* The plan approval gate *)

\* C37: a step of the run loop that takes the stage from PM to a later
\* stage is taken only with the plan approved (APPROVAL.md exists)
C37_ApprovalGate ==
    [][(state.stage = "PM" /\ StageIndex(state'.stage) > StageIndex("PM")) =>
            Artifact("APPROVAL") \in artifacts']_vars


----------------------------------------------------------------------------
(* Remote hub actions and the prompts of one task: the ActionHandler slot,
   the remote waiter of prompt_async and the modal, over several prompts *)

MaxPrompts == 2

MaxHubActions == 2

\* ActionType
ActionTypes == {"APPROVE", "REJECT", "SKIP", "ROLLBACK", "INTERRUPT"}

\* the task this app runs, and another one the hub may address
TaskNames == {"task", "other"}

\* what _wait_for_remote_response returns for a legacy action it consumes
LegacyAnswer(a) ==
    CASE a.action_type = "APPROVE" -> Some("yes")
      [] a.action_type = "REJECT" -> Some("no")
      [] a.action_type = "SKIP" -> Some("skip")
      [] OTHER -> Nothing

\* the app and the global ActionHandler before the first prompt; `api` says
\* whether the handler has the accessors peek_pending_response and
\* get_pending_response that _wait_for_remote_response calls (the
\* ActionHandler of hub/action_handler.py has none); `during` and `by` of an
\* action are the numbers of the prompt on screen when it arrived (0 for
\* none) and of the prompt that consumed it
HubApp(api) ==
    [api |-> api, pc |-> "idle", n |-> 0, ptype |-> None, modal |-> "none",
     local |-> None, remote |-> None, result |-> None,
     pending |-> Nothing, response |-> Nothing, arrivals |-> 0,
     taken |-> Nothing, fired |-> Nothing, applied |-> Nothing]

InitHub ==
    /\ IdleCore
    /\ tui = NoTui
    /\ logs = NoLogs
    /\ be = NoBackendCall
    /\ \E api \in BOOLEAN : prompt = HubApp(api)

\* ActionHandler.peek_pending_action
peek_pending_action(h) == h.pending

\* ActionHandler.get_pending_action: returns the slot and clears it
get_pending_action(h) == [h EXCEPT !.pending = Nothing]

\* ActionHandler.handle_hub_action: a payload that parses replaces whatever
\* the slot holds, whether or not a prompt is on screen; an unknown action
\* type raises ValueError in from_dict, which is logged
handle_hub_action(t, task) ==
    /\ prompt.arrivals < MaxHubActions
    /\ prompt' = [prompt EXCEPT
                    !.arrivals = @ + 1,
                    !.pending =
                        IF t \in ActionTypes
                          THEN Some([action_type |-> t, task_name |-> task,
                                     during |-> IF prompt.pc = "waiting"
                                                  THEN prompt.n ELSE 0,
                                     over |-> prompt.pending # Nothing])
                          ELSE @]
    /\ UNCHANGED promptFrame

\* the hub's response to a prompt of type pt reaches a handler that stores
\* responses
StoreResponse(pt, v) ==
    /\ prompt.api
    /\ prompt.arrivals < MaxHubActions
    /\ prompt' = [prompt EXCEPT !.arrivals = @ + 1, !.response = Some(<<pt, v>>)]
    /\ UNCHANGED promptFrame

\* prompt_async up to its await: the modal is on screen, the local future
\* and the remote task are pending
StartPrompt(pt) ==
    /\ prompt.pc \in {"idle", "returned"}
    /\ prompt.n < MaxPrompts
    /\ prompt' = [prompt EXCEPT
                    !.pc = "waiting", !.n = @ + 1, !.ptype = pt,
                    !.modal = "shown", !.local = "pending",
                    !.remote = "pending", !.result = None,
                    !.taken = Nothing, !.fired = Nothing]
    /\ UNCHANGED promptFrame

\* one iteration of the loop of _wait_for_remote_response that does not end
\* in the sleep: the lookup of a response raises AttributeError on a handler
\* without the accessors; a response for this prompt type is consumed and
\* returned; else a pending approve, reject or skip action for this task is
\* consumed and returned, whatever the prompt type
RemoteWaiterStep ==
    /\ prompt.pc = "waiting"
    /\ prompt.remote = "pending"
    /\ IF ~prompt.api
         THEN prompt' = [prompt EXCEPT !.remote = "raised"]
         ELSE IF prompt.response # Nothing /\ prompt.response[1][1] = prompt.ptype
           THEN prompt' = [prompt EXCEPT
                             !.response = Nothing,
                             !.remote = prompt.response[1][2],
                             !.taken = Some(prompt.response[1][2])]
           ELSE /\ peek_pending_action(prompt) # Nothing
                /\ peek_pending_action(prompt)[1].task_name = "task"
                /\ LegacyAnswer(peek_pending_action(prompt)[1]) # Nothing
                /\ prompt' =
                     [get_pending_action(prompt) EXCEPT
                        !.remote = LegacyAnswer(peek_pending_action(prompt)[1])[1],
                        !.taken = LegacyAnswer(peek_pending_action(prompt)[1]),
                        !.applied = Some([action |-> peek_pending_action(prompt)[1],
                                          by |-> prompt.n])]
    /\ UNCHANGED promptFrame

\* the user picks an option in the modal on screen: _handle calls the
\* callback with it, which resolves the local future unless it is done (a
\* cancelled future is done)
ModalChoice(v) ==
    /\ prompt.modal = "shown"
    /\ prompt' = [prompt EXCEPT
                    !.modal = "chosen",
                    !.fired = Some(v),
                    !.local = IF @ = "pending" THEN v ELSE @]
    /\ UNCHANGED promptFrame

\* asyncio.wait(FIRST_COMPLETED) resumes prompt_async with every waiter that
\* is done by then; the pending one is cancelled; done.pop().result() takes
\* any element of `done` and re-raises the exception of a task that raised;
\* hide_prompt is reached only on a return, and only when the local waiter
\* was pending
RaceDecided(w) ==
    /\ prompt.pc = "waiting"
    /\ prompt[w] \notin {"pending", "cancelled"}
    /\ prompt' = [prompt EXCEPT
                    !.pc = IF prompt[w] = "raised" THEN "raised" ELSE "returned",
                    !.result = IF prompt[w] = "raised" THEN "AttributeError"
                                                       ELSE prompt[w],
                    !.local = IF @ = "pending" THEN "cancelled" ELSE @,
                    !.remote = IF @ = "pending" THEN "cancelled" ELSE @,
                    !.modal = IF prompt.local = "pending" /\ prompt[w] # "raised"
                                THEN "hidden" ELSE @]
    /\ UNCHANGED promptFrame

NextHub ==
    \/ \E t \in ActionTypes \cup {"unknown"}, task \in TaskNames :
         handle_hub_action(t, task)
    \/ \E pt \in PromptTypes, v \in RemoteChoices : StoreResponse(pt, v)
    \/ \E pt \in PromptTypes : StartPrompt(pt)
    \/ RemoteWaiterStep
    \/ \E v \in LocalChoices : ModalChoice(v)
    \/ \E w \in {"local", "remote"} : RaceDecided(w)

SpecHub == InitHub /\ [][NextHub]_vars

\* C38: a hub action that the remote waiter consumes as the answer of a
\* prompt arrived while that same prompt was on screen: never while no prompt
\* was active, and never during an earlier prompt
C38_ActionForShownPrompt ==
    prompt.applied # Nothing =>
        prompt.applied[1].action.during = prompt.applied[1].by


\* C39: when prompt_async is over, an answer that the remote waiter removed
\* from the action handler, and a choice that the modal passed to the local
\* callback, are each the value that prompt_async returned
C39_ConsumedIsReturned ==
    prompt.pc \in {"returned", "raised"} =>
        /\ prompt.taken # Nothing => prompt.result = prompt.taken[1]
        /\ prompt.fired # Nothing => prompt.result = prompt.fired[1]


----------------------------------------------------------------------------
(* The hub client: connect, disconnect and the background tasks, on one
   event loop; each action runs a coroutine from one await to the next *)

MaxConnects == 2

\* a task made by asyncio.create_task: not started yet, no cancel requested
Task(kind) == [kind |-> kind, pc |-> "new", cancel |-> FALSE]

\* HubClient after construction (config.enabled); websocket 0 is None, k is
\* the k-th connection opened; a task field holds the index of its task in
\* `tasks`, 0 for None; main is the program that owns the client; d_tasks
\* and d are the list disconnect() iterates over and its position in it
HubClient ==
    [connected |-> FALSE, websocket |-> 0,
     heartbeat_task |-> 0, receive_task |-> 0, reconnect_task |-> 0,
     tasks |-> <<>>, opened |-> 0,
     main |-> "start", d_tasks |-> <<>>, d |-> 0]

InitClient ==
    /\ IdleCore
    /\ tui = NoTui
    /\ prompt = NoPrompt
    /\ logs = NoLogs
    /\ be = HubClient

\* who can be inside connect(): the program (0) or a reconnect task
Callers == 0 .. 3 * MaxConnects

\* the tasks that can exist: two for each connection opened, and one running
\* _reconnect for each receive task
TaskIds == 1 .. 3 * MaxConnects

At(c, caller, p) ==
    IF caller = 0
      THEN c.main = p
      ELSE /\ caller <= Len(c.tasks)
           /\ c.tasks[caller].kind = "reconnect"
           /\ c.tasks[caller].pc = p

Goto(c, caller, p) ==
    IF caller = 0 THEN [c EXCEPT !.main = p] ELSE [c EXCEPT !.tasks[caller].pc = p]

\* the program calls connect(): up to `await websockets.connect(...)`
MainConnects ==
    /\ be.main = "start"
    /\ be' = [be EXCEPT !.main = "c_open"]
    /\ UNCHANGED backendFrame

\* websockets.connect returns or raises. On success _websocket and
\* _connected are set and connect awaits the send of REGISTER; on failure
\* _connected is False and connect returns False: the program goes on, the
\* loop of _reconnect sleeps again
ConnectOpens(caller, ok) ==
    /\ At(be, caller, "c_open")
    /\ ok => be.opened < MaxConnects
    /\ be' = IF ok
               THEN Goto([be EXCEPT !.websocket = be.opened + 1,
                                    !.opened = @ + 1,
                                    !.connected = TRUE], caller, "c_register")
               ELSE Goto([be EXCEPT !.connected = FALSE], caller,
                         IF caller = 0 THEN "ready" ELSE "sleep")
    /\ UNCHANGED backendFrame

\* _send(REGISTER) is over: it returned at once without a websocket, sent,
\* or failed and cleared _connected; connect then creates the heartbeat and
\* receive tasks, stores them and returns True, which ends _reconnect
ConnectRegisters(caller, ok) ==
    /\ At(be, caller, "c_register")
    /\ LET n == Len(be.tasks)
           c == [be EXCEPT
                   !.connected = IF be.websocket # 0 /\ ~ok THEN FALSE ELSE @,
                   !.tasks = @ \o <<Task("heartbeat"), Task("receive")>>,
                   !.heartbeat_task = n + 1,
                   !.receive_task = n + 2]
       IN  be' = Goto(c, caller, IF caller = 0 THEN "ready" ELSE "done")
    /\ UNCHANGED backendFrame

\* the loop of disconnect() from position i of its task list to its next
\* await: a task that is not done is cancelled and awaited; after the list
\* the websocket, if any, is closed (awaited); without one disconnect is over
RECURSIVE disconnect_from(_, _)
disconnect_from(c, i) ==
    IF i > Len(c.d_tasks)
      THEN [c EXCEPT !.main = IF c.websocket # 0 THEN "d_close"
                                                 ELSE "disconnected"]
      ELSE LET k == c.d_tasks[i] IN
           IF k # 0 /\ c.tasks[k].pc # "done"
             THEN [c EXCEPT !.tasks[k].cancel = TRUE, !.main = "d_await", !.d = i]
             ELSE disconnect_from(c, i + 1)

\* the program calls disconnect()
DisconnectCalled ==
    /\ be.main = "ready"
    /\ be' = disconnect_from(
               [be EXCEPT !.connected = FALSE,
                          !.d_tasks = <<be.heartbeat_task, be.receive_task,
                                        be.reconnect_task>>], 1)
    /\ UNCHANGED backendFrame

\* the task disconnect() awaits is done
DisconnectResumes ==
    /\ be.main = "d_await"
    /\ be.tasks[be.d_tasks[be.d]].pc = "done"
    /\ be' = disconnect_from(be, be.d + 1)
    /\ UNCHANGED backendFrame

\* websocket.close() is over: _websocket = None, disconnect returns
DisconnectCloses ==
    /\ be.main = "d_close"
    /\ be' = [be EXCEPT !.websocket = 0, !.main = "disconnected"]
    /\ UNCHANGED backendFrame

\* a cancelled task is resumed with CancelledError (or never starts): the
\* loops of the heartbeat and receive tasks break on it
CancelDelivered(k) ==
    /\ k <= Len(be.tasks)
    /\ be.tasks[k].cancel
    /\ be.tasks[k].pc # "done"
    /\ be' = [be EXCEPT !.tasks[k].pc = "done"]
    /\ UNCHANGED backendFrame

\* _heartbeat_loop from one await of sleep to the next: while _connected;
\* after the sleep a heartbeat is sent if _connected, and a failed send
\* clears _connected
HeartbeatRuns(k, ok) ==
    /\ k <= Len(be.tasks)
    /\ be.tasks[k].kind = "heartbeat"
    /\ ~be.tasks[k].cancel
    /\ be.tasks[k].pc \in {"new", "sleep"}
    /\ LET sent == be.tasks[k].pc = "sleep" /\ be.connected /\ be.websocket # 0
           conn == IF sent /\ ~ok THEN FALSE ELSE be.connected
       IN  be' = [be EXCEPT !.connected = conn,
                            !.tasks[k].pc = IF conn THEN "sleep" ELSE "done"]
    /\ UNCHANGED backendFrame

\* _receive_loop from one await of recv to the next: while _connected and
\* _websocket; a message is handled; any other exception clears _connected,
\* creates a task running _reconnect, which is stored nowhere, and breaks
ReceiveRuns(k, outcome) ==
    /\ k <= Len(be.tasks)
    /\ be.tasks[k].kind = "receive"
    /\ ~be.tasks[k].cancel
    /\ be.tasks[k].pc \in {"new", "recv"}
    /\ be' = IF be.tasks[k].pc = "recv" /\ outcome = "lost"
               THEN [be EXCEPT !.connected = FALSE,
                               !.tasks = [@ EXCEPT ![k].pc = "done"]
                                           \o <<Task("reconnect")>>]
               ELSE [be EXCEPT !.tasks[k].pc =
                        IF be.connected /\ be.websocket # 0 THEN "recv" ELSE "done"]
    /\ UNCHANGED backendFrame

\* _reconnect starts: while not _connected, sleep
ReconnectRuns(k) ==
    /\ k <= Len(be.tasks)
    /\ be.tasks[k].kind = "reconnect"
    /\ be.tasks[k].pc = "new"
    /\ be' = [be EXCEPT !.tasks[k].pc = IF be.connected THEN "done" ELSE "sleep"]
    /\ UNCHANGED backendFrame

\* the sleep of _reconnect is over: it calls connect(), up to
\* `await websockets.connect(...)`
ReconnectWakes(k) ==
    /\ At(be, k, "sleep")
    /\ be' = Goto(be, k, "c_open")
    /\ UNCHANGED backendFrame

NextClient ==
    \/ MainConnects
    \/ \E caller \in Callers, ok \in BOOLEAN : ConnectOpens(caller, ok)
    \/ \E caller \in Callers, ok \in BOOLEAN : ConnectRegisters(caller, ok)
    \/ DisconnectCalled
    \/ DisconnectResumes
    \/ DisconnectCloses
    \/ \E k \in TaskIds : CancelDelivered(k)
    \/ \E k \in TaskIds, ok \in BOOLEAN : HeartbeatRuns(k, ok)
    \/ \E k \in TaskIds, o \in {"message", "lost"} : ReceiveRuns(k, o)
    \/ \E k \in TaskIds : ReconnectRuns(k)
    \/ \E k \in TaskIds : ReconnectWakes(k)

SpecClient == InitClient /\ [][NextClient]_vars

\* C40: once disconnect() has completed the client is not connected, holds
\* no websocket, and none of its heartbeat, receive and reconnect tasks is
\* still running
C40_StaysDisconnected ==
    be.main = "disconnected" =>
        /\ ~be.connected
        /\ be.websocket = 0
        /\ \A k \in 1 .. Len(be.tasks) : be.tasks[k].pc = "done"

====
